---------------------------- MODULE Spec2Model ----------------------------
(***************************************************************************)
(* openapi-to-llm-text: openApiToLlmText and the functions it is made of,  *)
(* modelled from the TypeScript source.  Texts are TLA+ strings handled    *)
(* character by character; decoded documents are JavaScript values, each   *)
(* a record [t |-> <typeof-like tag>, v |-> <payload>].                     *)
(***************************************************************************)
EXTENDS Integers, Sequences, FiniteSets, TLC

VARIABLES
    schema,       \* resolveSchemaType / formatSchema: the schema argument of the last call
    options,      \* resolveSchemaType: the options argument of the last call
    fn,           \* which function the last unit call invoked
    typeText,     \* resolveSchemaType: the returned descriptor
    listed,       \* formatSchema: the returned { type, lines } and the registry it filled
    unitOutcome,  \* "pending", then "returned" or "TypeError", for the unit call
    paramList,    \* formatParameters: the parameters argument of the call
    paramSections,\* formatParameters: the returned lines
    document,     \* openApiToLlmText: the openApi argument of the call
    text,         \* openApiToLlmText: the returned text
    outcome,      \* "pending", then "returned" or "TypeError", for the call
    history,      \* the finished calls of openApiToLlmText, oldest first
    leftCounter   \* the value the last inlineCounter held when its block ended

unitVars == <<schema, options, fn, typeText, listed, unitOutcome,
             paramList, paramSections>>

docVars == <<document, text, outcome, history, leftCounter>>

vars == <<schema, options, fn, typeText, listed, unitOutcome,
          paramList, paramSections, document, text, outcome, history, leftCounter>>

(***************************************************************************)
(* JavaScript values and the built-ins the source uses.                    *)
(***************************************************************************)
Undefined == [t |-> "undefined", v |-> 0]

Null == [t |-> "null", v |-> 0]

Str(s) == [t |-> "string", v |-> s]

Num(n) == [t |-> "number", v |-> n]

Bool(b) == [t |-> "boolean", v |-> b]

\* An array: v is the sequence of its elements.
Arr(elems) == [t |-> "array", v |-> elems]

\* An object: v is the sequence of its own <<key, value>> pairs in the
\* object's own enumeration order (what Object.keys / Object.entries yield).
Obj(pairs) == [t |-> "object", v |-> pairs]

\* typeof x === 'object' && x !== null
IsObject(x) == x.t \in {"object", "array"}

\* ToBoolean(x): the truthiness tests `if (x)`, `x || y`, `x && y`, `!x`
Truthy(x) ==
    CASE x.t = "undefined" -> FALSE
      [] x.t = "null"      -> FALSE
      [] x.t = "boolean"   -> x.v
      [] x.t = "number"    -> x.v # 0
      [] x.t = "string"    -> x.v # ""
      [] OTHER             -> TRUE

\* `k in x` for an object x (a TypeError for a primitive: see InThrows)
HasKey(x, k) == x.t = "object" /\ \E i \in 1..Len(x.v) : x.v[i][1] = k

\* `k in x` throws a TypeError unless x is an object
InThrows(x) == ~IsObject(x)

\* a function object, known by its name
Fn(name) == [t |-> "function", v |-> name]

\* x.k for a key the code writes out (undefined when x has no own property k;
\* the name of a function)
Get(x, k) ==
    IF HasKey(x, k)
    THEN x.v[CHOOSE i \in 1..Len(x.v) : x.v[i][1] = k][2]
    ELSE IF x.t = "function" /\ k = "name" THEN Str(x.v)
    ELSE Undefined

\* the members every object inherits from Object.prototype
ObjectPrototype ==
    <<<<"constructor", Fn("Object")>>, <<"toString", Fn("toString")>>,
      <<"valueOf", Fn("valueOf")>>, <<"hasOwnProperty", Fn("hasOwnProperty")>>,
      <<"__proto__", [t |-> "object", v |-> <<>>]>>>>

\* x[k] for a key taken from the document: an own property, else an
\* inherited one, else undefined
Member(x, k) ==
    IF HasKey(x, k) THEN Get(x, k)
    ELSE IF x.t = "object" /\ \E i \in 1..Len(ObjectPrototype) : ObjectPrototype[i][1] = k
    THEN ObjectPrototype[CHOOSE i \in 1..Len(ObjectPrototype) :
                            ObjectPrototype[i][1] = k][2]
    ELSE Undefined

\* x.k throws a TypeError when x is undefined or null
GetThrows(x) == x.t \in {"undefined", "null"}

\* x === 'literal'
StrEq(x, lit) == x.t = "string" /\ x.v = lit

\* Array.isArray(x)
ArrayIsArray(x) == x.t = "array"

\* Object.keys(x) for a truthy x
ObjectKeys(x) ==
    CASE x.t = "object" -> [i \in 1..Len(x.v) |-> x.v[i][1]]
      [] x.t = "array"  -> [i \in 1..Len(x.v) |-> ToString(i - 1)]
      [] x.t = "string" -> [i \in 1..Len(x.v) |-> ToString(i - 1)]
      [] OTHER          -> <<>>

RECURSIVE JoinStrings(_, _)
\* strs.join(sep) for a sequence of strings
JoinStrings(strs, sep) ==
    IF Len(strs) = 0 THEN ""
    ELSE IF Len(strs) = 1 THEN strs[1]
    ELSE strs[1] \o sep \o JoinStrings(Tail(strs), sep)

RECURSIVE JSString(_)
\* String(x), as template literals and Array.prototype.join apply it
JSString(x) ==
    CASE x.t = "undefined" -> "undefined"
      [] x.t = "null"      -> "null"
      [] x.t = "boolean"   -> IF x.v THEN "true" ELSE "false"
      [] x.t = "number"    -> ToString(x.v)
      [] x.t = "string"    -> x.v
      [] x.t = "array"     ->
           JoinStrings([i \in 1..Len(x.v) |->
                           IF x.v[i].t \in {"undefined", "null"} THEN ""
                           ELSE JSString(x.v[i])], ",")
      [] OTHER             -> "[object Object]"

\* elems.join(sep): undefined and null elements become the empty string
Join(elems, sep) ==
    JoinStrings([i \in 1..Len(elems) |->
                    IF elems[i].t \in {"undefined", "null"} THEN ""
                    ELSE JSString(elems[i])], sep)

RECURSIVE SplitFrom(_, _, _, _)
\* the segments of s from position i on, cur being the segment read so far
SplitFrom(s, sep, i, cur) ==
    IF i > Len(s) THEN <<cur>>
    ELSE IF SubSeq(s, i, i) = sep THEN <<cur>> \o SplitFrom(s, sep, i + 1, "")
    ELSE SplitFrom(s, sep, i + 1, cur \o SubSeq(s, i, i))

\* s.split(sep) for a one-character separator
Split(s, sep) == SplitFrom(s, sep, 1, "")

\* segs.pop(): the last element
Pop(segs) == segs[Len(segs)]

\* propKeys.slice(0, n)
Slice(keys, n) == SubSeq(keys, 1, IF n < Len(keys) THEN n ELSE Len(keys))

(***************************************************************************)
(* resolveSchemaType: one schema node and a render context to a one-line   *)
(* type descriptor.                                                        *)
(***************************************************************************)
\* limitProperties of the requestBody context
RequestBodyLimit == 3

\* how many property names of an inline object branch a composition shows
BranchPropertyLimit == 3

\* const { context, includeFormat = ..., ... } = options
OptContext(opts) == opts.context

OptIncludeFormat(opts) ==
    IF "includeFormat" \in DOMAIN opts THEN opts.includeFormat
    ELSE opts.context = "response"

OptIncludeProperties(opts) ==
    IF "includeProperties" \in DOMAIN opts THEN opts.includeProperties
    ELSE TRUE

\* 0 stands for undefined: both are falsy in `limitProperties && ...`
OptLimitProperties(opts) ==
    IF "limitProperties" \in DOMAIN opts THEN opts.limitProperties
    ELSE IF opts.context = "requestBody" THEN RequestBodyLimit ELSE 0

\* variant: one spelling of the unknown token for every context
UnknownValueOneCase(context) == "Unknown"

\* const unknownValue = context === 'parameter' ? 'unknown' : 'Unknown'
UnknownValue(context) == IF context = "parameter" THEN "unknown" ELSE "Unknown"

\* ref.split('/').pop()
RefName(ref) == Pop(Split(ref, "/"))

\* the callback mapped over the branches of allOf / oneOf / anyOf; its
\* result is a JavaScript value (s.type need not be a string)
CompositionBranch(s) ==
    IF Truthy(Get(s, "$ref")) THEN Str(RefName(Get(s, "$ref").v))
    ELSE IF StrEq(Get(s, "type"), "object") /\ Truthy(Get(s, "properties"))
    THEN LET props == ObjectKeys(Get(s, "properties"))
         IN  IF Len(props) <= BranchPropertyLimit
             THEN Str("{" \o JoinStrings(props, ", ") \o "}")
             ELSE Str("{" \o JoinStrings(Slice(props, BranchPropertyLimit), ", ")
                          \o ", ...}")
    ELSE IF Truthy(Get(s, "type")) THEN Get(s, "type")
    ELSE Str("inline")

\* the callback throws on a null branch and on a truthy $ref with no split()
CompositionBranchThrows(s) ==
    \/ GetThrows(s)
    \/ Truthy(Get(s, "$ref")) /\ Get(s, "$ref").t # "string"

\* variant: the composition named, its branches not listed
CompositionTypeUnlisted(kind, branches) == kind \o " composition"

\* schemaObj.<kind>.map(callback).join(', ') wrapped as `<kind>: [...]`
CompositionType(kind, branches) ==
    kind \o ": [" \o
    Join([i \in 1..Len(branches.v) |-> CompositionBranch(branches.v[i])], ", ")
    \o "]"

\* .map is not a function unless the keyword holds an array
CompositionThrows(branches) ==
    \/ ~ArrayIsArray(branches)
    \/ \E i \in 1..Len(branches.v) : CompositionBranchThrows(branches.v[i])

\* the three unconditional type tests of the primitive branch
IsPrimitiveType(type) ==
    StrEq(type, "string") \/ StrEq(type, "integer") \/ StrEq(type, "number")

RECURSIVE resolveSchemaType(_, _)

\* variant: the reference string is not split
ReferenceTypeUnsplit(ref, unknownValue) == IF ref # "" THEN ref ELSE unknownValue

\* return ref.split('/').pop() || unknownValue
ReferenceType(ref, unknownValue) ==
    LET name == RefName(ref)
    IN  IF name # "" THEN name ELSE unknownValue

\* variant: the parameter context is not short-circuited to "array"
ArrayTypeItemsAlways(items, opts) ==
    IF ~Truthy(items) THEN "array"
    ELSE IF HasKey(items, "$ref")
    THEN "Array of "
         \o ReferenceType(Get(items, "$ref").v, UnknownValue(OptContext(opts)))
    ELSE IF StrEq(Get(items, "type"), "object") THEN "Array of object"
    ELSE "Array of " \o resolveSchemaType(items, opts)

\* the branch `if (schemaObj.type === 'array')`, entered with a type of 'array'
ArrayType(items, opts) ==
    IF OptContext(opts) = "parameter" THEN "array"
    ELSE IF ~Truthy(items) THEN "array"
    ELSE IF HasKey(items, "$ref")
    THEN "Array of "
         \o ReferenceType(Get(items, "$ref").v, UnknownValue(OptContext(opts)))
    ELSE IF StrEq(Get(items, "type"), "object") THEN "Array of object"
    ELSE "Array of " \o resolveSchemaType(items, opts)

\* variant: the limit cuts at `>=` instead of `>`
ObjectTypeOffByOne(properties, includeProperties, limitProperties) ==
    IF includeProperties /\ Truthy(properties) /\ Len(ObjectKeys(properties)) > 0
    THEN LET propKeys == ObjectKeys(properties)
             propNames ==
                 IF limitProperties # 0 /\ Len(propKeys) >= limitProperties
                 THEN JoinStrings(Slice(propKeys, limitProperties), ", ") \o "..."
                 ELSE JoinStrings(propKeys, ", ")
         IN  "Object (" \o propNames \o ")"
    ELSE "object"

\* the branch `if (schemaObj.type === 'object')`
ObjectType(properties, includeProperties, limitProperties) ==
    IF includeProperties /\ Truthy(properties) /\ Len(ObjectKeys(properties)) > 0
    THEN LET propKeys == ObjectKeys(properties)
             propNames ==
                 IF limitProperties # 0 /\ Len(propKeys) > limitProperties
                 THEN JoinStrings(Slice(propKeys, limitProperties), ", ") \o "..."
                 ELSE JoinStrings(propKeys, ", ")
         IN  "Object (" \o propNames \o ")"
    ELSE "object"

\* variant: the format is tested before the enum
PrimitiveTypeFormatFirst(type, enum, format, includeFormat) ==
    IF includeFormat /\ Truthy(format)
    THEN type \o " (format: " \o JSString(format) \o ")"
    ELSE IF Truthy(enum) /\ ArrayIsArray(enum)
    THEN type \o " [" \o Join(enum.v, ", ") \o "]"
    ELSE type

\* the branch for string / integer / number: enum first, else format
PrimitiveType(type, enum, format, includeFormat) ==
    IF Truthy(enum) /\ ArrayIsArray(enum)
    THEN type \o " [" \o Join(enum.v, ", ") \o "]"
    ELSE IF includeFormat /\ Truthy(format)
    THEN type \o " (format: " \o JSString(format) \o ")"
    ELSE type

resolveSchemaType(s, opts) ==
    LET context == OptContext(opts)
        unknownValue == UnknownValue(context)
        type == Get(s, "type")
    IN  IF ~Truthy(s) THEN unknownValue
        ELSE IF HasKey(s, "$ref")
        THEN ReferenceType(Get(s, "$ref").v, unknownValue)
        ELSE IF Truthy(Get(s, "allOf"))
        THEN IF context = "requestBody"
             THEN CompositionType("allOf", Get(s, "allOf"))
             ELSE unknownValue
        ELSE IF Truthy(Get(s, "oneOf"))
        THEN IF context = "requestBody"
             THEN CompositionType("oneOf", Get(s, "oneOf"))
             ELSE unknownValue
        ELSE IF Truthy(Get(s, "anyOf"))
        THEN IF context = "requestBody"
             THEN CompositionType("anyOf", Get(s, "anyOf"))
             ELSE unknownValue
        ELSE IF StrEq(type, "array") THEN ArrayType(Get(s, "items"), opts)
        ELSE IF StrEq(type, "object")
        THEN ObjectType(Get(s, "properties"), OptIncludeProperties(opts),
                        OptLimitProperties(opts))
        ELSE IF IsPrimitiveType(type)
        THEN PrimitiveType(type.v, Get(s, "enum"), Get(s, "format"),
                           OptIncludeFormat(opts))
        ELSE IF Truthy(type) /\ type.t = "string" THEN type.v
        ELSE unknownValue

RECURSIVE resolveSchemaTypeThrows(_, _)
\* whether the call above ends in a TypeError instead of returning
resolveSchemaTypeThrows(s, opts) ==
    LET context == OptContext(opts)
        items == Get(s, "items")
    IN  IF ~Truthy(s) THEN FALSE
        ELSE IF InThrows(s) THEN TRUE
        ELSE IF HasKey(s, "$ref") THEN Get(s, "$ref").t # "string"
        ELSE IF Truthy(Get(s, "allOf"))
        THEN context = "requestBody" /\ CompositionThrows(Get(s, "allOf"))
        ELSE IF Truthy(Get(s, "oneOf"))
        THEN context = "requestBody" /\ CompositionThrows(Get(s, "oneOf"))
        ELSE IF Truthy(Get(s, "anyOf"))
        THEN context = "requestBody" /\ CompositionThrows(Get(s, "anyOf"))
        ELSE IF StrEq(Get(s, "type"), "array")
        THEN IF context = "parameter" THEN FALSE
             ELSE IF ~Truthy(items) THEN FALSE
             ELSE IF InThrows(items) THEN TRUE
             ELSE IF HasKey(items, "$ref") THEN Get(items, "$ref").t # "string"
             ELSE IF StrEq(Get(items, "type"), "object") THEN FALSE
             ELSE resolveSchemaTypeThrows(items, opts)
        ELSE FALSE

(***************************************************************************)
(* formatSchema: one named schema of the SCHEMAS section to its type       *)
(* summary and body lines; inline object branches of a top-level           *)
(* composition are registered as virtual schemas.                          *)
(***************************************************************************)
\* a counter kept across calls: it starts where the last block left it
InlineCounterLeftOver == leftCounter

\* let inlineCounter = 1
InlineCounterInit == 1

\* Object.entries(x) for a truthy x
ObjectEntries(x) ==
    CASE x.t = "object" -> x.v
      [] x.t = "array"  -> [i \in 1..Len(x.v) |-> <<ToString(i - 1), x.v[i]>>]
      [] x.t = "string" ->
           [i \in 1..Len(x.v) |-> <<ToString(i - 1), Str(SubSeq(x.v, i, i))>>]
      [] OTHER          -> <<>>

\* registry[name] = value: an existing key keeps its place, a new one is appended
SetKey(registry, name, value) ==
    IF \E i \in 1..Len(registry) : registry[i][1] = name
    THEN [i \in 1..Len(registry) |->
             IF registry[i][1] = name THEN <<name, value>> ELSE registry[i]]
    ELSE Append(registry, <<name, value>>)

\* the virtual name without its angle brackets
VirtualNameBare(parentSchemaName, inlineCounter) ==
    parentSchemaName \o "__inline__" \o ToString(inlineCounter)

\* `<${parentSchemaName}__inline__${inlineCounter++}>`
VirtualName(parentSchemaName, inlineCounter) ==
    "<" \o parentSchemaName \o "__inline__" \o ToString(inlineCounter) \o ">"

\* whether the callback of a top-level composition makes s a virtual schema
IsInlineObject(s) ==
    /\ ~Truthy(Get(s, "$ref"))
    /\ StrEq(Get(s, "type"), "object")
    /\ Truthy(Get(s, "properties"))

RECURSIVE SchemaBranches(_, _, _, _, _)
\* branches.map(callback) of a top-level composition, from branch i on:
\* the mapped values, the registry and the counter after the last branch
SchemaBranches(branches, i, parentSchemaName, inlineCounter, registry) ==
    IF i > Len(branches)
    THEN [names |-> <<>>, registry |-> registry, inlineCounter |-> inlineCounter]
    ELSE LET s == branches[i]
             virtual == IsInlineObject(s)
             virtualName == VirtualName(parentSchemaName, inlineCounter)
             name == IF Truthy(Get(s, "$ref")) THEN Str(RefName(Get(s, "$ref").v))
                     ELSE IF virtual THEN Str(virtualName)
                     ELSE IF Truthy(Get(s, "type")) THEN Get(s, "type")
                     ELSE Str("inline")
             rest == SchemaBranches(branches, i + 1, parentSchemaName,
                         IF virtual THEN inlineCounter + 1 ELSE inlineCounter,
                         IF virtual THEN SetKey(registry, virtualName, s)
                         ELSE registry)
         IN  [rest EXCEPT !.names = <<name>> \o @]

\* the branch `if (schema.<kind>)` of formatSchema
SchemaComposition(kind, branches, parentSchemaName, registry) ==
    LET mapped == SchemaBranches(branches.v, 1, parentSchemaName,
                                 InlineCounterInit, registry)
    IN  [type |-> kind \o " [" \o Join(mapped.names, ", ") \o "]",
         lines |-> <<>>,
         registry |-> mapped.registry,
         inlineCounter |-> mapped.inlineCounter]

\* variant: an items line is written whatever items is
SchemaArrayLinesAlways(items, indent) ==
    IF IsObject(items) /\ HasKey(items, "$ref")
    THEN <<indent \o "items: " \o ReferenceType(Get(items, "$ref").v, "unknown")>>
    ELSE IF StrEq(Get(items, "type"), "object")
    THEN <<indent \o "items: object">>
    ELSE <<indent \o "items: " \o resolveSchemaType(items, [context |-> "response"])>>

\* the branch `if (schema.type === 'array')` of formatSchema
SchemaArrayLines(items, indent) ==
    IF Truthy(items) /\ IsObject(items)
    THEN IF HasKey(items, "$ref")
         THEN <<indent \o "items: " \o ReferenceType(Get(items, "$ref").v, "unknown")>>
         ELSE IF StrEq(Get(items, "type"), "object")
         THEN <<indent \o "items: object">>
         ELSE <<indent \o "items: "
                  \o resolveSchemaType(items, [context |-> "response"])>>
    ELSE <<>>

\* the callback mapped over the branches of a property's composition
PropertyBranch(s) ==
    IF Truthy(Get(s, "$ref")) THEN Str(RefName(Get(s, "$ref").v))
    ELSE IF Truthy(Get(s, "type")) THEN Get(s, "type")
    ELSE Str("inline")

\* variant: a single reference branch is listed like any other
PropertyCompositionListed(kind, branches) ==
    kind \o " ["
    \o Join([i \in 1..Len(branches.v) |-> PropertyBranch(branches.v[i])], ", ") \o "]"

\* the typeStr of a property that carries the composition keyword `kind`
PropertyComposition(kind, branches) ==
    LET schemas == [i \in 1..Len(branches.v) |-> PropertyBranch(branches.v[i])]
    IN  IF Len(schemas) = 1 /\ HasKey(branches.v[1], "$ref")
        THEN JSString(schemas[1])
        ELSE kind \o " [" \o Join(schemas, ", ") \o "]"

\* the primitive branches of formatSchema: enum first, else format (always shown)
ListedPrimitive(type, enum, format) ==
    IF Truthy(enum) /\ ArrayIsArray(enum)
    THEN type \o " [" \o Join(enum.v, ", ") \o "]"
    ELSE IF Truthy(format)
    THEN type \o " (format: " \o JSString(format) \o ")"
    ELSE type

\* string / integer / number / boolean
IsListedPrimitive(type) == IsPrimitiveType(type) \/ StrEq(type, "boolean")

\* the if / else-if chain that sets typeStr for one property
PropertyType(prop) ==
    LET type == Get(prop, "type")
    IN  IF HasKey(prop, "$ref") THEN "object"
        ELSE IF Truthy(Get(prop, "allOf"))
        THEN PropertyComposition("allOf", Get(prop, "allOf"))
        ELSE IF Truthy(Get(prop, "oneOf"))
        THEN PropertyComposition("oneOf", Get(prop, "oneOf"))
        ELSE IF Truthy(Get(prop, "anyOf"))
        THEN PropertyComposition("anyOf", Get(prop, "anyOf"))
        ELSE IF StrEq(type, "array") THEN "array"
        ELSE IF StrEq(type, "object") THEN "object"
        ELSE IF IsListedPrimitive(type)
        THEN ListedPrimitive(type.v, Get(prop, "enum"), Get(prop, "format"))
        ELSE IF Truthy(type) /\ type.t = "string" THEN type.v
        ELSE IF Truthy(Get(prop, "properties")) THEN "object"
        ELSE "unknown"

\* required.includes(propName), required being schema.required || []
RequiredIncludes(required, propName) ==
    IF ~Truthy(required) THEN FALSE
    ELSE IF required.t = "array"
    THEN \E i \in 1..Len(required.v) : StrEq(required.v[i], propName)
    ELSE IF required.t = "string"
    THEN \E i \in 1..(Len(required.v) + 1) : \E j \in (i - 1)..Len(required.v) :
            SubSeq(required.v, i, j) = propName
    ELSE FALSE

\* variant: the required status is written after the type
PropertyLineSuffixed(indent, propName, isRequired, typeStr) ==
    indent \o "- " \o propName \o ": " \o typeStr
    \o (IF isRequired THEN " (required)" ELSE "")

\* `${indent}- ${propName}${requiredMarker}: ${typeStr}`
PropertyLine(indent, propName, isRequired, typeStr) ==
    indent \o "- " \o propName \o (IF isRequired THEN "*" ELSE "") \o ": " \o typeStr

\* the branch `if (schema.properties)` of formatSchema
SchemaPropertyLines(s, indent) ==
    LET entries == ObjectEntries(Get(s, "properties"))
    IN  [i \in 1..Len(entries) |->
            PropertyLine(indent, entries[i][1],
                         RequiredIncludes(Get(s, "required"), entries[i][1]),
                         PropertyType(entries[i][2]))]

formatSchema(s, indent, parentSchemaName, virtualSchemasRegistry) ==
    LET type == Get(s, "type")
        plain(t, ls) == [type |-> t, lines |-> ls,
                         registry |-> virtualSchemasRegistry,
                         inlineCounter |-> 0]
    IN  IF Truthy(Get(s, "allOf"))
        THEN SchemaComposition("allOf", Get(s, "allOf"), parentSchemaName,
                               virtualSchemasRegistry)
        ELSE IF Truthy(Get(s, "oneOf"))
        THEN SchemaComposition("oneOf", Get(s, "oneOf"), parentSchemaName,
                               virtualSchemasRegistry)
        ELSE IF Truthy(Get(s, "anyOf"))
        THEN SchemaComposition("anyOf", Get(s, "anyOf"), parentSchemaName,
                               virtualSchemasRegistry)
        ELSE IF StrEq(type, "array")
        THEN plain("array", SchemaArrayLines(Get(s, "items"), indent))
        ELSE IF Truthy(Get(s, "properties"))
        THEN plain("object", SchemaPropertyLines(s, indent))
        ELSE IF IsListedPrimitive(type)
        THEN plain(ListedPrimitive(type.v, Get(s, "enum"), Get(s, "format")), <<>>)
        ELSE IF Truthy(type) /\ type.t = "string" THEN plain(type.v, <<>>)
        ELSE plain("unknown", <<>>)

\* a top-level composition: .map needs an array, the callback reads s.$ref
SchemaCompositionThrows(branches) ==
    \/ ~ArrayIsArray(branches)
    \/ \E i \in 1..Len(branches.v) : CompositionBranchThrows(branches.v[i])

\* a property's composition: as above, then `'$ref' in prop.<kind>[0]`
PropertyCompositionThrows(branches) ==
    \/ SchemaCompositionThrows(branches)
    \/ Len(branches.v) = 1 /\ InThrows(branches.v[1])

PropertyTypeThrows(prop) ==
    IF InThrows(prop) THEN TRUE
    ELSE IF HasKey(prop, "$ref") THEN FALSE
    ELSE IF Truthy(Get(prop, "allOf"))
    THEN PropertyCompositionThrows(Get(prop, "allOf"))
    ELSE IF Truthy(Get(prop, "oneOf"))
    THEN PropertyCompositionThrows(Get(prop, "oneOf"))
    ELSE IF Truthy(Get(prop, "anyOf"))
    THEN PropertyCompositionThrows(Get(prop, "anyOf"))
    ELSE FALSE

\* required.includes is not a function unless required is an array or a string
RequiredIncludesThrows(required) ==
    Truthy(required) /\ required.t \notin {"array", "string"}

formatSchemaThrows(s) ==
    LET items == Get(s, "items")
        entries == ObjectEntries(Get(s, "properties"))
    IN  IF GetThrows(s) THEN TRUE
        ELSE IF Truthy(Get(s, "allOf")) THEN SchemaCompositionThrows(Get(s, "allOf"))
        ELSE IF Truthy(Get(s, "oneOf")) THEN SchemaCompositionThrows(Get(s, "oneOf"))
        ELSE IF Truthy(Get(s, "anyOf")) THEN SchemaCompositionThrows(Get(s, "anyOf"))
        ELSE IF StrEq(Get(s, "type"), "array")
        THEN IF Truthy(items) /\ IsObject(items)
             THEN IF HasKey(items, "$ref") THEN Get(items, "$ref").t # "string"
                  ELSE IF StrEq(Get(items, "type"), "object") THEN FALSE
                  ELSE resolveSchemaTypeThrows(items, [context |-> "response"])
             ELSE FALSE
        ELSE IF Truthy(Get(s, "properties"))
        THEN \E i \in 1..Len(entries) :
                \/ RequiredIncludesThrows(Get(s, "required"))
                \/ PropertyTypeThrows(entries[i][2])
        ELSE FALSE

(***************************************************************************)
(* formatSchemas: the SCHEMAS section, one block per schema, the virtual   *)
(* schemas of a parent right after the parent's block.                     *)
(***************************************************************************)
\* `${name}: ${result.type}`, ...result.lines, ''
SchemaBlock(name, result) == <<name \o ": " \o result.type>> \o result.lines \o <<"">>

RECURSIVE VirtualBlocks(_, _)
\* the loop over Object.entries(virtualSchemasForParent), from entry i on
VirtualBlocks(registry, i) ==
    IF i > Len(registry) THEN <<>>
    ELSE SchemaBlock(registry[i][1],
                     formatSchema(registry[i][2], "  ", registry[i][1], <<>>))
         \o VirtualBlocks(registry, i + 1)

\* variant: the virtual schemas are emitted ahead of their parent
ParentBlocksVirtualFirst(schemaName, schemaObj) ==
    LET result == formatSchema(schemaObj, "  ", schemaName, <<>>)
    IN  VirtualBlocks(result.registry, 1) \o SchemaBlock(schemaName, result)

\* one iteration of the loop over Object.entries(schemas)
ParentBlocks(schemaName, schemaObj) ==
    LET result == formatSchema(schemaObj, "  ", schemaName, <<>>)
    IN  SchemaBlock(schemaName, result) \o VirtualBlocks(result.registry, 1)

RECURSIVE SchemaBlocksFrom(_, _)
SchemaBlocksFrom(entries, i) ==
    IF i > Len(entries) THEN <<>>
    ELSE ParentBlocks(entries[i][1], entries[i][2]) \o SchemaBlocksFrom(entries, i + 1)

formatSchemas(schemas) ==
    <<"SCHEMAS:", "> * = required\n">> \o SchemaBlocksFrom(ObjectEntries(schemas), 1)

formatSchemasThrows(schemas) ==
    LET entries == ObjectEntries(schemas)
    IN  \E i \in 1..Len(entries) :
           \/ formatSchemaThrows(entries[i][2])
           \/ LET registry == formatSchema(entries[i][2], "  ", entries[i][1],
                                           <<>>).registry
              IN  \E j \in 1..Len(registry) : formatSchemaThrows(registry[j][2])

RECURSIVE LastCounter(_, _, _)
\* the value of the inlineCounter that was live last while the blocks of the
\* <<name, schema>> pairs from i on were made (prev when none was)
LastCounter(entries, i, prev) ==
    IF i > Len(entries) THEN prev
    ELSE LET result == formatSchema(entries[i][2], "  ", entries[i][1], <<>>)
             mine == IF result.inlineCounter # 0 THEN result.inlineCounter ELSE prev
         IN  LastCounter(entries, i + 1, LastCounter(result.registry, 1, mine))

(***************************************************************************)
(* The document level: header, endpoints, parameters, bodies, responses,   *)
(* security, and openApiToLlmText that joins them.                         *)
(***************************************************************************)
\* x.length > 0 (false when x.length is undefined)
HasElements(x) ==
    CASE x.t \in {"array", "string"} -> Len(x.v) > 0
      [] x.t = "object" -> Get(x, "length").t = "number" /\ Get(x, "length").v > 0
      [] OTHER -> FALSE

\* the values `for (const e of x)` visits, for an array or a string
Iterate(x) ==
    IF x.t = "array" THEN x.v
    ELSE [i \in 1..Len(x.v) |-> Str(SubSeq(x.v, i, i))]

\* x is not iterable
IterateThrows(x) == x.t \notin {"array", "string"}

\* x?.k
OptGet(x, k) == IF GetThrows(x) THEN Undefined ELSE Get(x, k)

\* x?.[k]
OptMember(x, k) == IF GetThrows(x) THEN Undefined ELSE Member(x, k)

\* x?.[0]
OptFirst(x) ==
    IF x.t \in {"array", "string"} /\ Len(x.v) > 0 THEN Iterate(x)[1] ELSE Undefined

\* a || b
OrElse(a, b) == IF Truthy(a) THEN a ELSE b

RECURSIVE Flatten(_)
\* sections.push(...a), sections.push(...b), ... for a sequence of line lists
Flatten(lists) ==
    IF lists = <<>> THEN <<>> ELSE Head(lists) \o Flatten(Tail(lists))

\* 'swagger' in openApi && openApi.swagger === '2.0'
isSwagger2(openApi) == HasKey(openApi, "swagger") /\ StrEq(Get(openApi, "swagger"), "2.0")

\* the lines for servers[1..]: `  - ${server.url}${description}`
AdditionalUrls(servers) ==
    [i \in 1..(Len(servers) - 1) |->
        LET server == servers[i + 1]
        IN  "  - " \o JSString(Get(server, "url"))
            \o (IF Truthy(Get(server, "description"))
                THEN " (" \o JSString(Get(server, "description")) \o ")"
                ELSE "")]

formatHeader(info, servers) ==
    <<"API: " \o JSString(Get(info, "title")) \o " v" \o JSString(Get(info, "version"))>>
    \o (IF Truthy(Get(info, "description"))
        THEN <<"Description: " \o JSString(Get(info, "description"))>>
        ELSE <<>>)
    \o (IF Truthy(servers) /\ HasElements(servers)
        THEN <<"\nBase URL: " \o JSString(Get(Iterate(servers)[1], "url"))>>
             \o (IF Len(Iterate(servers)) > 1
                 THEN <<"Additional URLs:">> \o AdditionalUrls(Iterate(servers))
                 ELSE <<>>)
        ELSE <<>>)

\* info.title on a missing info, server.url on a null server
formatHeaderThrows(info, servers) ==
    \/ GetThrows(info)
    \/ /\ Truthy(servers) /\ HasElements(servers)
       /\ \/ IterateThrows(servers)
          \/ \E i \in 1..Len(Iterate(servers)) : GetThrows(Iterate(servers)[i])

\* variant: a name the version's collection lacks is looked up in the other one
resolveParameterRefEither(ref, openApi) ==
    LET paramName == RefName(ref)
        modern == OptMember(OptGet(Get(openApi, "components"), "parameters"), paramName)
        legacy == OptMember(Get(openApi, "parameters"), paramName)
    IN  IF ~isSwagger2(openApi) THEN OrElse(modern, legacy) ELSE OrElse(legacy, modern)

\* ref.split('/').pop(), then the collection of the document's version
resolveParameterRef(ref, openApi) ==
    LET paramName == RefName(ref)
    IN  IF ~isSwagger2(openApi)
        THEN OptMember(OptGet(Get(openApi, "components"), "parameters"), paramName)
        ELSE OptMember(Get(openApi, "parameters"), paramName)

\* the parameter a list entry stands for
ResolvedParam(p, openApi) ==
    IF HasKey(p, "$ref") THEN resolveParameterRef(Get(p, "$ref").v, openApi) ELSE p

\* variant: the enum on a Swagger 2.0 parameter is not shown
ParameterTypeBare(resolvedParam) ==
    IF Truthy(Get(resolvedParam, "schema"))
    THEN resolveSchemaType(Get(resolvedParam, "schema"), [context |-> "parameter"])
    ELSE IF Truthy(Get(resolvedParam, "type"))
    THEN JSString(Get(resolvedParam, "type"))
    ELSE "unknown"

\* the type text of a resolved parameter
ParameterType(resolvedParam) ==
    LET type == Get(resolvedParam, "type")
        enum == Get(resolvedParam, "enum")
    IN  IF Truthy(Get(resolvedParam, "schema"))
        THEN resolveSchemaType(Get(resolvedParam, "schema"), [context |-> "parameter"])
        ELSE IF Truthy(type)
        THEN IF StrEq(type, "array") THEN "array"
             ELSE IF StrEq(type, "file") THEN "file"
             ELSE IF Truthy(enum) /\ ArrayIsArray(enum)
             THEN JSString(type) \o " [" \o Join(enum.v, ", ") \o "]"
             ELSE JSString(type)
        ELSE "unknown"

\* the line pushed to paramLines for one resolved parameter
ParameterLine(resolvedParam) ==
    "    - " \o JSString(OrElse(Get(resolvedParam, "name"), Str("undefined")))
    \o " (" \o JSString(OrElse(Get(resolvedParam, "in"), Str("undefined")))
    \o ", " \o ParameterType(resolvedParam)
    \o " (" \o (IF Truthy(Get(resolvedParam, "required")) THEN "required" ELSE "optional")
    \o ")): "
    \o JSString(OrElse(Get(resolvedParam, "description"), Str("No description")))

RECURSIVE ParamLines(_, _, _)
\* the loop over parameters from entry i on: unresolved references are skipped
ParamLines(params, i, openApi) ==
    IF i > Len(params) THEN <<>>
    ELSE LET resolvedParam == ResolvedParam(params[i], openApi)
         IN  (IF HasKey(params[i], "$ref") /\ ~Truthy(resolvedParam) THEN <<>>
              ELSE <<ParameterLine(resolvedParam)>>)
             \o ParamLines(params, i + 1, openApi)

formatParameters(parameters, openApi) ==
    LET paramLines == ParamLines(Iterate(parameters), 1, openApi)
    IN  IF Len(paramLines) > 0 THEN <<"  Parameters:">> \o paramLines ELSE <<>>

formatParametersThrows(parameters, openApi) ==
    \/ IterateThrows(parameters)
    \/ \E i \in 1..Len(Iterate(parameters)) :
          LET p == Iterate(parameters)[i]
          IN  \/ InThrows(p)
              \/ HasKey(p, "$ref") /\ Get(p, "$ref").t # "string"
              \/ LET resolvedParam == ResolvedParam(p, openApi)
                 IN  /\ ~(HasKey(p, "$ref") /\ ~Truthy(resolvedParam))
                     /\ Truthy(Get(resolvedParam, "schema"))
                     /\ resolveSchemaTypeThrows(Get(resolvedParam, "schema"),
                                                [context |-> "parameter"])

\* `Content:` and `Schema:` lines for the entries of a content map
ContentLines(content, indent, context) ==
    Flatten([i \in 1..Len(ObjectEntries(content)) |->
        LET entry == ObjectEntries(content)[i]
        IN  <<indent \o "Content: " \o entry[1],
              indent \o "Schema: "
                  \o resolveSchemaType(Get(entry[2], "schema"), [context |-> context])>>])

ContentThrows(content, context) ==
    \E i \in 1..Len(ObjectEntries(content)) :
        LET mediaType == ObjectEntries(content)[i][2]
        IN  \/ GetThrows(mediaType)
            \/ resolveSchemaTypeThrows(Get(mediaType, "schema"), [context |-> context])

formatRequestBody(requestBody) ==
    <<"  Request Body:">>
    \o (IF Truthy(Get(requestBody, "content"))
        THEN ContentLines(Get(requestBody, "content"), "    ", "requestBody")
        ELSE <<>>)

formatRequestBodyThrows(requestBody) ==
    Truthy(Get(requestBody, "content"))
        /\ ContentThrows(Get(requestBody, "content"), "requestBody")

\* the lines of one entry of responses
ResponseLines(statusCode, resp) ==
    <<"    " \o statusCode \o ": "
        \o JSString(OrElse(Get(resp, "description"), Str("No description")))>>
    \o (IF Truthy(Get(resp, "content"))
        THEN ContentLines(Get(resp, "content"), "      ", "response")
        ELSE IF Truthy(Get(resp, "schema"))
        THEN <<"      Schema: "
                 \o resolveSchemaType(Get(resp, "schema"), [context |-> "response"])>>
        ELSE <<>>)

formatResponses(responses) ==
    <<"  Responses:">>
    \o Flatten([i \in 1..Len(ObjectEntries(responses)) |->
                   ResponseLines(ObjectEntries(responses)[i][1],
                                 ObjectEntries(responses)[i][2])])

formatResponsesThrows(responses) ==
    \E i \in 1..Len(ObjectEntries(responses)) :
        LET resp == ObjectEntries(responses)[i][2]
        IN  \/ GetThrows(resp)
            \/ IF Truthy(Get(resp, "content"))
               THEN ContentThrows(Get(resp, "content"), "response")
               ELSE /\ Truthy(Get(resp, "schema"))
                    /\ resolveSchemaTypeThrows(Get(resp, "schema"),
                                               [context |-> "response"])

allPossibleMethods ==
    {"get", "put", "post", "delete", "options", "head", "patch", "trace"}

\* method.toUpperCase() for the methods of allPossibleMethods
ToUpperCase(method) ==
    CASE method = "get"     -> "GET"
      [] method = "put"     -> "PUT"
      [] method = "post"    -> "POST"
      [] method = "delete"  -> "DELETE"
      [] method = "options" -> "OPTIONS"
      [] method = "head"    -> "HEAD"
      [] method = "patch"   -> "PATCH"
      [] method = "trace"   -> "TRACE"

\* an operation's block without its closing empty section
OperationEndNone == <<>>

\* sections.push('') closing an operation's block
OperationEnd == <<"">>

formatOperation(method, path, operation, openApi) ==
    <<ToUpperCase(method) \o " " \o path>>
    \o (IF Truthy(Get(operation, "summary"))
        THEN <<"  Summary: " \o JSString(Get(operation, "summary"))>>
        ELSE <<>>)
    \o (IF Truthy(Get(operation, "parameters")) /\ HasElements(Get(operation, "parameters"))
        THEN formatParameters(Get(operation, "parameters"), openApi)
        ELSE <<>>)
    \o (IF Truthy(Get(operation, "requestBody"))
        THEN formatRequestBody(Get(operation, "requestBody"))
        ELSE <<>>)
    \o (IF Truthy(Get(operation, "responses"))
        THEN formatResponses(Get(operation, "responses"))
        ELSE <<>>)
    \o OperationEnd

formatOperationThrows(operation, openApi) ==
    \/ /\ Truthy(Get(operation, "parameters")) /\ HasElements(Get(operation, "parameters"))
       /\ formatParametersThrows(Get(operation, "parameters"), openApi)
    \/ /\ Truthy(Get(operation, "requestBody"))
       /\ formatRequestBodyThrows(Get(operation, "requestBody"))
    \/ /\ Truthy(Get(operation, "responses"))
       /\ formatResponsesThrows(Get(operation, "responses"))

\* the <<method, operation>> pairs of a path item that get a block
Operations(pathItem) ==
    SelectSeq(ObjectEntries(pathItem),
              LAMBDA e : e[1] \in allPossibleMethods /\ Truthy(e[2]))

\* the blocks of one entry of paths
PathLines(path, pathItem, openApi) ==
    IF ~Truthy(pathItem) THEN <<>>
    ELSE Flatten([i \in 1..Len(Operations(pathItem)) |->
                     formatOperation(Operations(pathItem)[i][1], path,
                                     Operations(pathItem)[i][2], openApi)])

formatEndpoints(paths, openApi) ==
    <<"\nENDPOINTS:\n">>
    \o Flatten([i \in 1..Len(ObjectEntries(paths)) |->
                   PathLines(ObjectEntries(paths)[i][1], ObjectEntries(paths)[i][2],
                             openApi)])

formatEndpointsThrows(paths, openApi) ==
    \E i \in 1..Len(ObjectEntries(paths)) :
        LET pathItem == ObjectEntries(paths)[i][2]
        IN  /\ Truthy(pathItem)
            /\ \E j \in 1..Len(Operations(pathItem)) :
                   formatOperationThrows(Operations(pathItem)[j][2], openApi)

\* the line of one security scheme, none for a type the chain does not know
SecurityLine(schemeObj) ==
    LET type == Get(schemeObj, "type")
        scheme == Get(schemeObj, "scheme")
    IN  IF StrEq(type, "oauth2") THEN <<"- OAuth2 authentication">>
        ELSE IF StrEq(type, "apiKey")
        THEN <<"- API Key authentication (" \o JSString(Get(schemeObj, "in")) \o ": "
                 \o JSString(Get(schemeObj, "name")) \o ")">>
        ELSE IF StrEq(type, "http")
        THEN IF StrEq(scheme, "bearer") THEN <<"- HTTP bearer authentication">>
             ELSE IF StrEq(scheme, "basic") THEN <<"- HTTP basic authentication">>
             ELSE <<"- HTTP " \o JSString(scheme) \o " authentication">>
        ELSE IF StrEq(type, "openIdConnect") THEN <<"- OpenID Connect authentication">>
        ELSE IF StrEq(type, "basic") THEN <<"- HTTP basic authentication">>
        ELSE <<>>

formatSecurity(securitySchemes) ==
    <<"SECURITY:">>
    \o Flatten([i \in 1..Len(ObjectEntries(securitySchemes)) |->
                   SecurityLine(ObjectEntries(securitySchemes)[i][2])])
    \o <<"">>

formatSecurityThrows(securitySchemes) ==
    \E i \in 1..Len(ObjectEntries(securitySchemes)) :
        GetThrows(ObjectEntries(securitySchemes)[i][2])

\* variant: a host alone makes the base URL
HeaderServersHostOnly(openApi) ==
    IF isSwagger2(openApi)
    THEN IF Truthy(Get(openApi, "host"))
         THEN Arr(<<Obj(<<<<"url",
                  Str(JSString(OrElse(OptFirst(Get(openApi, "schemes")), Str("https")))
                      \o "://" \o JSString(Get(openApi, "host"))
                      \o JSString(OrElse(Get(openApi, "basePath"), Str(""))))>>>>)>>)
         ELSE Undefined
    ELSE Get(openApi, "servers")

\* the servers formatHeader gets: [{ url: baseUrl }] for Swagger 2.0 with a
\* host and a basePath, openApi.servers for OpenAPI 3.x
HeaderServers(openApi) ==
    IF isSwagger2(openApi)
    THEN IF Truthy(Get(openApi, "host")) /\ Truthy(Get(openApi, "basePath"))
         THEN Arr(<<Obj(<<<<"url",
                  Str(JSString(OrElse(OptFirst(Get(openApi, "schemes")), Str("https")))
                      \o "://" \o JSString(Get(openApi, "host"))
                      \o JSString(Get(openApi, "basePath")))>>>>)>>)
         ELSE Undefined
    ELSE Get(openApi, "servers")

\* openApi.definitions, or openApi.components?.schemas
DocSchemas(openApi) ==
    IF isSwagger2(openApi) THEN Get(openApi, "definitions")
    ELSE OptGet(Get(openApi, "components"), "schemas")

\* openApi.securityDefinitions, or openApi.components?.securitySchemes
DocSecurity(openApi) ==
    IF isSwagger2(openApi) THEN Get(openApi, "securityDefinitions")
    ELSE OptGet(Get(openApi, "components"), "securitySchemes")

\* variant: the registry of a parent is the schemas map of the document
RegistryIsDocument == FALSE

\* const virtualSchemasForParent = {}: the registry is an object of its own
RegistryIsFresh == TRUE

RECURSIVE Registered(_, _)
\* the registry entries written while the <<name, schema>> pairs from i on
\* were listed, in the order of the writes
Registered(entries, i) ==
    IF i > Len(entries) THEN <<>>
    ELSE formatSchema(entries[i][2], "  ", entries[i][1], <<>>).registry
         \o Registered(entries, i + 1)

RECURSIVE SetKeys(_, _, _)
\* the writes target[name] = value for the <<name, value>> pairs from i on
SetKeys(target, pairs, i) ==
    IF i > Len(pairs) THEN target
    ELSE SetKeys(SetKey(target, pairs[i][1], pairs[i][2]), pairs, i + 1)

\* the schemas map after formatSchemas: the writes to the registry reach it
\* only if the registry is that map
SchemasAfter(schemas) ==
    IF RegistryIsFresh THEN schemas
    ELSE Obj(SetKeys(schemas.v, Registered(ObjectEntries(schemas), 1), 1))

\* the document after the call: nothing but the registry is ever written to
DocumentAfter(openApi) ==
    IF ~Truthy(DocSchemas(openApi)) THEN openApi
    ELSE IF isSwagger2(openApi)
    THEN Obj(SetKey(openApi.v, "definitions", SchemasAfter(DocSchemas(openApi))))
    ELSE Obj(SetKey(openApi.v, "components",
                    Obj(SetKey(Get(openApi, "components").v, "schemas",
                               SchemasAfter(DocSchemas(openApi))))))

\* the sections array at the return statement
Sections(openApi) ==
    formatHeader(Get(openApi, "info"), HeaderServers(openApi))
    \o formatEndpoints(OrElse(Get(openApi, "paths"), Obj(<<>>)), openApi)
    \o (IF Truthy(DocSchemas(openApi)) THEN formatSchemas(DocSchemas(openApi)) ELSE <<>>)
    \o (IF Truthy(DocSecurity(openApi)) THEN formatSecurity(DocSecurity(openApi))
        ELSE <<>>)

\* return sections.join('\n')
openApiToLlmText(openApi) == JoinStrings(Sections(openApi), "\n")

openApiToLlmTextThrows(openApi) ==
    \/ formatHeaderThrows(Get(openApi, "info"), HeaderServers(openApi))
    \/ formatEndpointsThrows(OrElse(Get(openApi, "paths"), Obj(<<>>)), openApi)
    \/ Truthy(DocSchemas(openApi)) /\ formatSchemasThrows(DocSchemas(openApi))
    \/ Truthy(DocSecurity(openApi)) /\ formatSecurityThrows(DocSecurity(openApi))

(***************************************************************************)
(* Inputs of the unit calls: schema nodes built from small alphabets.      *)
(***************************************************************************)
\* most properties an object node declares
MaxProps == 5

\* most branches a composition node lists
MaxBranches == 2

Contexts == {"parameter", "requestBody", "response"}

\* a key/value pair that is present only when the value is
Opt(key, value) == IF value.t = "undefined" THEN <<>> ELSE <<<<key, value>>>>

RefStrings ==
    {"#/components/schemas/Pet", "#/definitions/Bar", "Pet",
     "#/components/schemas/", "", "a//b"}

ReferenceNodes == {Obj(<<<<"$ref", Str(r)>>>>) : r \in RefStrings}

TypeNames == {"string", "integer", "number", "boolean", "file"}

FormatChoices == {Undefined, Str("int64"), Str("date-time")}

EnumChoices ==
    {Undefined, Arr(<<>>), Arr(<<Str("a"), Str("b")>>), Arr(<<Num(1), Num(2), Num(3)>>)}

PrimitiveNodes ==
    {Obj(<<<<"type", Str(t)>>>> \o Opt("format", f) \o Opt("enum", e)) :
        t \in TypeNames, f \in FormatChoices, e \in EnumChoices}

\* nodes with none of type, $ref, allOf/oneOf/anyOf, properties
BareNodes ==
    {Obj(Opt("format", f) \o Opt("enum", e) \o Opt("description", d)) :
        f \in FormatChoices, e \in {Undefined, Arr(<<Str("a")>>)},
        d \in {Undefined, Str("text")}}

PropName(i) == "p" \o ToString(i)

\* the i-th property's schema: the shapes a property line distinguishes
PropSchema(i) ==
    CASE i % 5 = 1 -> Obj(<<<<"type", Str("integer")>>, <<"format", Str("int64")>>>>)
      [] i % 5 = 2 -> Obj(<<<<"$ref", Str("#/components/schemas/Pet")>>>>)
      [] i % 5 = 3 -> Obj(<<>>)
      [] i % 5 = 4 -> Obj(<<<<"type", Str("array")>>,
                            <<"items", Obj(<<<<"type", Str("string")>>>>)>>>>)
      [] OTHER     -> Obj(<<<<"type", Str("string")>>,
                            <<"enum", Arr(<<Str("a"), Str("b")>>)>>>>)

Properties(n) == Obj([i \in 1..n |-> <<PropName(i), PropSchema(i)>>])

RequiredChoices ==
    {Undefined, Arr(<<>>), Arr(<<Str(PropName(1))>>),
     Arr(<<Str(PropName(2)), Str(PropName(4))>>)}

ObjectNodes ==
    {Obj(<<<<"type", Str("object")>>, <<"properties", Properties(n)>>>>
         \o Opt("required", r)) : n \in 0..MaxProps, r \in RequiredChoices}
    \cup {Obj(<<<<"properties", Properties(n)>>>>) : n \in 0..MaxProps}
    \cup {Obj(<<<<"type", Str("object")>>>>)}

\* what a composition lists: references, inline objects, primitives, the rest
BranchChoices ==
    {Obj(<<<<"$ref", Str("#/components/schemas/Bar")>>>>),
     Obj(<<<<"$ref", Str("#/components/schemas/")>>>>),
     Obj(<<<<"type", Str("string")>>>>),
     Obj(<<<<"type", Str("object")>>>>),
     Obj(<<<<"description", Str("text")>>>>)}
    \cup {Obj(<<<<"type", Str("object")>>, <<"properties", Properties(n)>>>>) :
             n \in {0, 2, 3, 4}}

RECURSIVE BranchLists(_)
\* the branch lists of at most n branches
BranchLists(n) ==
    IF n = 0 THEN {<<>>}
    ELSE BranchLists(n - 1)
         \cup {Append(l, b) : l \in {k \in BranchLists(n - 1) : Len(k) = n - 1},
                              b \in BranchChoices}

CompositionKinds == {"allOf", "oneOf", "anyOf"}

CompositionNodes ==
    {Obj(<<<<kind, Arr(l)>>>>) : kind \in CompositionKinds, l \in BranchLists(MaxBranches)}

\* nodes that carry several of the keys the renderer tests, in priority order
MixedNodes ==
    {Obj(<<<<"type", Str("object")>>, <<"properties", Properties(2)>>,
           <<"allOf", Arr(<<Obj(<<<<"$ref", Str("#/definitions/Bar")>>>>)>>)>>>>),
     Obj(<<<<"oneOf", Arr(<<Obj(<<<<"type", Str("string")>>>>)>>)>>,
           <<"allOf", Arr(<<Obj(<<<<"type", Str("number")>>>>)>>)>>>>),
     Obj(<<<<"anyOf", Arr(<<Obj(<<<<"type", Str("string")>>>>)>>)>>,
           <<"oneOf", Arr(<<Obj(<<<<"type", Str("number")>>>>)>>)>>>>),
     Obj(<<<<"type", Str("string")>>, <<"$ref", Str("#/definitions/Bar")>>>>),
     Obj(<<<<"type", Arr(<<Str("string"), Str("null")>>)>>>>),
     Obj(<<<<"type", Str("")>>>>)}

ItemChoices ==
    {Undefined, Null}
    \cup ReferenceNodes
    \cup {n \in PrimitiveNodes : Get(n, "type").v \in {"string", "boolean"}}
    \cup {n \in ObjectNodes : ~HasKey(n, "required")}
    \cup BareNodes
    \cup {Obj(<<<<"type", Str("array")>>>>),
          Obj(<<<<"type", Str("array")>>,
                <<"items", Obj(<<<<"type", Str("integer")>>,
                                 <<"format", Str("int32")>>>>)>>>>),
          Obj(<<<<"type", Str("array")>>,
                <<"items", Obj(<<<<"$ref", Str("#/definitions/Bar")>>>>)>>>>)}
    \cup {n \in CompositionNodes : HasKey(n, "allOf") /\ Len(Get(n, "allOf").v) = 1}

ArrayNodes == {Obj(<<<<"type", Str("array")>>>> \o Opt("items", i)) : i \in ItemChoices}

\* documents as a decoder can hand them over although no schema looks so
MalformedNodes ==
    {Str("string"), Bool(TRUE), Num(1),
     Obj(<<<<"$ref", Num(5)>>>>),
     Obj(<<<<"$ref", Null>>>>),
     Obj(<<<<"allOf", Str("Pet")>>>>),
     Obj(<<<<"oneOf", Obj(<<>>)>>>>),
     Obj(<<<<"anyOf", Arr(<<Null>>)>>>>),
     Obj(<<<<"allOf", Arr(<<Obj(<<<<"$ref", Num(1)>>>>)>>)>>>>),
     Obj(<<<<"type", Str("array")>>, <<"items", Bool(TRUE)>>>>),
     Obj(<<<<"type", Str("array")>>, <<"items", Obj(<<<<"$ref", Num(1)>>>>)>>>>),
     Obj(<<<<"type", Str("object")>>, <<"properties", Properties(1)>>,
           <<"required", Bool(TRUE)>>>>),
     Obj(<<<<"properties", Obj(<<<<"p1", Null>>>>)>>>>),
     Obj(<<<<"properties", Obj(<<<<"p1", Obj(<<<<"allOf", Arr(<<Str("x")>>)>>>>)>>>>)>>>>)}

\* objects with a reference, a composition and a primitive among their properties
PropertyHolders ==
    {Obj(<<<<"type", Str("object")>>,
           <<"properties", Obj(<<<<"owner", Obj(<<<<"$ref", Str("#/definitions/Pet")>>>>)>>,
                                 <<"either", c>>,
                                 <<"flag", Obj(<<<<"type", Str("boolean")>>>>)>>>>)>>,
           <<"required", Arr(<<Str("either")>>)>>>>) :
        c \in CompositionNodes \cup MixedNodes}

SchemaNodes ==
    {Undefined, Null} \cup ReferenceNodes \cup PrimitiveNodes \cup BareNodes
    \cup ObjectNodes \cup CompositionNodes \cup MixedNodes \cup ArrayNodes
    \cup MalformedNodes \cup PropertyHolders

SchemaNames == {"Foo", "Pet"}

(***************************************************************************)
(* The unit calls: each action is one call of one function on one input.   *)
(***************************************************************************)
NoResult == [type |-> "", lines |-> <<>>, registry |-> <<>>, inlineCounter |-> 0]

\* the call about to be made: the function and its arguments
UnitInit ==
    /\ fn \in {"resolveSchemaType", "formatSchema"}
    /\ schema \in SchemaNodes
    /\ options \in IF fn = "resolveSchemaType"
                   THEN {[context |-> c] : c \in Contexts}
                   ELSE {[context |-> "schemaListing", parentSchemaName |-> n] :
                            n \in SchemaNames}
    /\ typeText = ""
    /\ listed = NoResult
    /\ unitOutcome = "pending"
    /\ paramList = Undefined
    /\ paramSections = <<>>
    /\ document = Undefined
    /\ text = ""
    /\ outcome = "none"
    /\ history = <<>>
    /\ leftCounter = 1

\* resolveSchemaType(schema, { context })
ResolveSchemaType ==
    LET throws == resolveSchemaTypeThrows(schema, options)
    IN  /\ unitOutcome = "pending"
        /\ fn = "resolveSchemaType"
        /\ unitOutcome' = IF throws THEN "TypeError" ELSE "returned"
        /\ typeText' = IF throws THEN "" ELSE resolveSchemaType(schema, options)
        /\ UNCHANGED <<fn, schema, options, listed, paramList, paramSections>>
        /\ UNCHANGED docVars

\* formatSchema(schema, '  ', schemaName, {}) as formatSchemas calls it
FormatSchema ==
    LET throws == formatSchemaThrows(schema)
    IN  /\ unitOutcome = "pending"
        /\ fn = "formatSchema"
        /\ unitOutcome' = IF throws THEN "TypeError" ELSE "returned"
        /\ listed' = IF throws THEN NoResult
                     ELSE formatSchema(schema, "  ", options.parentSchemaName, <<>>)
        /\ UNCHANGED <<fn, schema, options, typeText, paramList, paramSections>>
        /\ UNCHANGED docVars

UnitNext == ResolveSchemaType \/ FormatSchema

SpecUnits == UnitInit /\ [][UnitNext]_vars

(***************************************************************************)
(* Documents: decoded OpenAPI 3.x and Swagger 2.0 documents assembled from *)
(* a few choices for each part.                                            *)
(***************************************************************************)
Ref(target) == Obj(<<<<"$ref", Str(target)>>>>)

Typed(type) == Obj(<<<<"type", Str(type)>>>>)

InfoChoices ==
    {Undefined,
     Obj(<<<<"title", Str("T")>>, <<"version", Str("1")>>>>),
     Obj(<<<<"title", Str("Petstore")>>, <<"version", Str("1.0.27")>>,
           <<"description", Str("A sample store")>>>>)}

ServersChoices ==
    {Undefined,
     Arr(<<>>),
     Arr(<<Obj(<<<<"url", Str("/api")>>>>)>>),
     Arr(<<Obj(<<<<"url", Str("https://a.example/v3")>>>>),
           Obj(<<<<"url", Str("https://b.example/v3")>>,
                 <<"description", Str("staging")>>>>),
           Obj(<<<<"url", Str("/local")>>>>)>>)}

\* <<host, basePath, schemes>> of a Swagger 2.0 document
HostChoices ==
    {<<Str("api.x.com"), Str("/v1"), Arr(<<Str("http")>>)>>,
     <<Str("api.x.com"), Str("/v1"), Undefined>>,
     <<Str("api.x.com"), Str("/v1"), Arr(<<>>)>>,
     <<Str("api.x.com"), Undefined, Arr(<<Str("http")>>)>>,
     <<Undefined, Str("/v1"), Undefined>>}

OkResponses == Obj(<<<<"200", Obj(<<<<"description", Str("OK")>>>>)>>>>)

\* the paths of the end-to-end example
ExamplePaths ==
    Obj(<<<<"/x", Obj(<<<<"get", Obj(<<<<"summary", Str("S")>>,
                                        <<"responses", OkResponses>>>>)>>>>)>>>>)

\* OpenAPI 3.x operations: inline and referenced parameters, bodies, contents
PetPaths ==
    Obj(<<
      <<"/pets", Obj(<<
         <<"summary", Str("not an operation")>>,
         <<"get", Obj(<<
            <<"summary", Str("List pets")>>,
            <<"parameters", Arr(<<
               Obj(<<<<"name", Str("limit")>>, <<"in", Str("query")>>,
                     <<"required", Bool(TRUE)>>,
                     <<"schema", Obj(<<<<"type", Str("integer")>>,
                                       <<"format", Str("int32")>>>>)>>>>),
               Ref("#/components/parameters/status"),
               Ref("#/components/parameters/missing"),
               Obj(<<<<"name", Str("tags")>>, <<"in", Str("query")>>,
                     <<"description", Str("tags to filter by")>>,
                     <<"schema", Obj(<<<<"type", Str("array")>>,
                                       <<"items", Typed("string")>>>>)>>>>)>>)>>,
            <<"responses", Obj(<<
               <<"200", Obj(<<
                  <<"description", Str("A list")>>,
                  <<"content", Obj(<<
                     <<"application/json", Obj(<<
                        <<"schema", Obj(<<<<"type", Str("array")>>,
                                          <<"items", Ref("#/components/schemas/Pet")>>>>)>>
                     >>)>>,
                     <<"application/xml", Obj(<<>>)>>>>)>>>>)>>,
               <<"default", Obj(<<>>)>>>>)>>>>)>>,
         <<"post", Obj(<<
            <<"requestBody", Obj(<<
               <<"content", Obj(<<
                  <<"application/json", Obj(<<
                     <<"schema", Obj(<<<<"type", Str("object")>>,
                                       <<"properties", Properties(4)>>>>)>>>>)>>,
                  <<"text/plain", Obj(<<
                     <<"schema", Obj(<<<<"oneOf", Arr(<<Ref("#/components/schemas/Pet"),
                                                       Typed("string")>>)>>>>)>>>>)>>
               >>)>>>>)>>,
            <<"responses", Obj(<<
               <<"201", Obj(<<<<"description", Str("")>>>>)>>>>)>>>>)>>,
         <<"delete", Null>>>>)>>,
      <<"/none", Null>>,
      <<"/pets/{id}", Obj(<<
         <<"head", Obj(<<
            <<"parameters", Arr(<<Ref("#/components/parameters/missing")>>)>>>>)>>
      >>)>>>>)

\* Swagger 2.0 operations: the type sits on the parameter, the schema on the response
StorePaths ==
    Obj(<<
      <<"/store", Obj(<<
         <<"put", Obj(<<
            <<"summary", Str("Update")>>,
            <<"parameters", Arr(<<
               Obj(<<<<"name", Str("status")>>, <<"in", Str("query")>>,
                     <<"type", Str("string")>>,
                     <<"enum", Arr(<<Str("sold"), Str("pending")>>)>>>>),
               Obj(<<<<"name", Str("upload")>>, <<"in", Str("formData")>>,
                     <<"type", Str("file")>>, <<"required", Bool(TRUE)>>>>),
               Obj(<<<<"name", Str("ids")>>, <<"in", Str("query")>>,
                     <<"type", Str("array")>>,
                     <<"items", Typed("integer")>>>>),
               Ref("#/parameters/status"),
               Obj(<<<<"in", Str("body")>>>>)>>)>>,
            <<"responses", Obj(<<
               <<"200", Obj(<<<<"description", Str("OK")>>,
                              <<"schema", Ref("#/definitions/Pet")>>>>)>>,
               <<"400", Obj(<<<<"schema", Obj(<<<<"type", Str("string")>>,
                                                <<"format", Str("date")>>>>)>>>>)>>
            >>)>>>>)>>>>)>>>>)

\* operations the conversion cannot finish
BrokenPaths ==
    {Obj(<<<<"/a", Obj(<<<<"get", Obj(<<<<"parameters", Arr(<<Null>>)>>>>)>>>>)>>>>),
     Obj(<<<<"/a", Obj(<<<<"get", Obj(<<<<"parameters",
                                         Arr(<<Obj(<<<<"$ref", Num(7)>>>>)>>)>>>>)>>>>)>>>>),
     Obj(<<<<"/a", Obj(<<<<"get", Obj(<<<<"parameters", Arr(<<Str("limit")>>)>>>>)>>>>)>>>>),
     Obj(<<<<"/a", Obj(<<<<"get", Obj(<<<<"responses",
                                         Obj(<<<<"200", Null>>>>)>>>>)>>>>)>>>>),
     Obj(<<<<"/a", Obj(<<<<"post", Obj(<<<<"requestBody", Obj(<<<<"content",
              Obj(<<<<"application/json",
                      Obj(<<<<"schema", Obj(<<<<"allOf", Str("Pet")>>>>)>>>>)>>>>)>>>>)>>
          >>)>>>>)>>>>)}

PathsChoices == {Undefined, ExamplePaths, PetPaths, StorePaths} \cup BrokenPaths

PetSchema ==
    Obj(<<<<"type", Str("object")>>,
          <<"required", Arr(<<Str("name")>>)>>,
          <<"properties", Obj(<<
              <<"id", Obj(<<<<"type", Str("integer")>>, <<"format", Str("int64")>>>>)>>,
              <<"name", Typed("string")>>,
              <<"owner", Ref("#/components/schemas/Bar")>>>>)>>>>)

\* the composition of the Foo example: a reference and an inline object
FooSchema ==
    Obj(<<<<"allOf", Arr(<<Ref("#/components/schemas/Bar"),
                           Obj(<<<<"type", Str("object")>>,
                                 <<"properties", Obj(<<<<"x", Typed("string")>>,
                                                       <<"y", Typed("integer")>>>>)>>
                               >>)>>)>>>>)

\* two inline objects under one keyword
PairSchema ==
    Obj(<<<<"oneOf", Arr(<<Obj(<<<<"type", Str("object")>>,
                                 <<"properties", Properties(1)>>>>),
                           Typed("string"),
                           Obj(<<<<"type", Str("object")>>,
                                 <<"properties", Properties(2)>>,
                                 <<"required", Arr(<<Str("p2")>>)>>>>)>>)>>>>)

\* an inline object branch that carries a composition of its own
NestSchema ==
    Obj(<<<<"oneOf", Arr(<<Obj(<<<<"type", Str("object")>>,
                                 <<"properties", Properties(1)>>,
                                 <<"allOf", Arr(<<Obj(<<<<"type", Str("object")>>,
                                                        <<"properties", Properties(2)>>>>),
                                                  Typed("string")>>)>>>>)>>)>>>>)

SchemasChoices ==
    {Undefined,
     Obj(<<<<"Nest", NestSchema>>, <<"Pet", PetSchema>>>>),
     Obj(<<<<"Foo", FooSchema>>, <<"Bar", PetSchema>>>>),
     Obj(<<<<"Pet", PetSchema>>, <<"Foo", FooSchema>>, <<"Pair", PairSchema>>>>),
     Obj(<<<<"Pair", PairSchema>>, <<"Foo", FooSchema>>>>),
     Obj(<<<<"Pets", Obj(<<<<"type", Str("array")>>,
                           <<"items", Ref("#/components/schemas/Pet")>>>>)>>,
           <<"Status", Obj(<<<<"type", Str("string")>>,
                             <<"enum", Arr(<<Str("sold"), Str("pending")>>)>>>>)>>,
           <<"Any", Obj(<<>>)>>>>),
     Obj(<<<<"Foo", FooSchema>>, <<"<Foo__inline__1>", Typed("string")>>>>),
     Obj(<<<<"<Pair__inline__2>", PetSchema>>, <<"Pair", PairSchema>>>>),
     Obj(<<<<"Foo", Null>>>>),
     Obj(<<<<"Foo", Obj(<<<<"properties", Properties(1)>>,
                          <<"required", Bool(TRUE)>>>>)>>>>),
     Obj(<<<<"Foo", Obj(<<<<"anyOf", Arr(<<Null>>)>>>>)>>>>)}

SecurityChoices ==
    {Undefined,
     Obj(<<<<"api_key", Obj(<<<<"type", Str("apiKey")>>, <<"in", Str("header")>>,
                              <<"name", Str("api_key")>>>>)>>,
           <<"oauth", Typed("oauth2")>>,
           <<"bearer", Obj(<<<<"type", Str("http")>>, <<"scheme", Str("bearer")>>>>)>>,
           <<"digest", Obj(<<<<"type", Str("http")>>, <<"scheme", Str("digest")>>>>)>>,
           <<"plain", Obj(<<<<"type", Str("http")>>, <<"scheme", Str("basic")>>>>)>>,
           <<"oidc", Typed("openIdConnect")>>,
           <<"old", Typed("basic")>>,
           <<"cert", Typed("mutualTLS")>>>>)}

\* the reusable parameters of a document (components.parameters, or parameters)
SharedParameters(swagger) ==
    Obj(<<<<"status",
            IF swagger
            THEN Obj(<<<<"name", Str("status")>>, <<"in", Str("query")>>,
                       <<"type", Str("integer")>>>>)
            ELSE Obj(<<<<"name", Str("status")>>, <<"in", Str("query")>>,
                       <<"schema", Obj(<<<<"type", Str("string")>>,
                                         <<"enum", Arr(<<Str("sold")>>)>>>>)>>>>)>>>>)

\* an OpenAPI 3.x document
OpenApi3(info, servers, paths, schemas, security) ==
    Obj(<<<<"openapi", Str("3.0.0")>>>>
        \o Opt("info", info) \o Opt("servers", servers) \o Opt("paths", paths)
        \o <<<<"components", Obj(Opt("schemas", schemas)
                                 \o Opt("securitySchemes", security)
                                 \o <<<<"parameters", SharedParameters(FALSE)>>>>)>>>>)

\* a Swagger 2.0 document
Swagger2(info, host, paths, schemas, security) ==
    Obj(<<<<"swagger", Str("2.0")>>>>
        \o Opt("info", info) \o Opt("host", host[1]) \o Opt("basePath", host[2])
        \o Opt("schemes", host[3]) \o Opt("paths", paths)
        \o Opt("definitions", schemas) \o Opt("securityDefinitions", security)
        \o <<<<"parameters", SharedParameters(TRUE)>>>>)

\* the document of the end-to-end example
ExampleDocument ==
    Obj(<<<<"openapi", Str("3.0.0")>>,
          <<"info", Obj(<<<<"title", Str("T")>>, <<"version", Str("1")>>>>)>>,
          <<"servers", Arr(<<Obj(<<<<"url", Str("/api")>>>>)>>)>>,
          <<"paths", ExamplePaths>>>>)

\* a document without info
NoInfoDocument == Obj(<<<<"openapi", Str("3.0.0")>>, <<"paths", Obj(<<>>)>>>>)

Documents ==
    {ExampleDocument, NoInfoDocument, Obj(<<>>), Obj(<<<<"swagger", Str("3.0")>>>>)}
    \cup {OpenApi3(i, s, p, c, a) : i \in InfoChoices, s \in ServersChoices,
             p \in PathsChoices, c \in SchemasChoices, a \in SecurityChoices}
    \cup {Swagger2(i, h, p, c, a) : i \in InfoChoices, h \in HostChoices,
             p \in PathsChoices, c \in SchemasChoices, a \in SecurityChoices}

\* the documents converted one after the other
RepeatedDocuments ==
    {ExampleDocument}
    \cup {OpenApi3(Obj(<<<<"title", Str("T")>>, <<"version", Str("1")>>>>),
                   Undefined, p, c, Undefined) :
             p \in {Undefined, PetPaths},
             c \in {d \in SchemasChoices :
                       d.t = "object" /\ d.v[1][2].t = "object"
                       /\ ~HasKey(d.v[1][2], "required")}}
    \cup {Swagger2(Undefined, <<Undefined, Undefined, Undefined>>, Undefined,
                   Undefined, Undefined)}

\* most calls of openApiToLlmText in one run
MaxCalls == 2

(***************************************************************************)
(* Calls of openApiToLlmText.                                              *)
(***************************************************************************)
\* nothing of the unit calls is in use
UnitIdle ==
    /\ fn = "none"
    /\ schema = Undefined
    /\ options = [context |-> "parameter"]
    /\ typeText = ""
    /\ listed = [type |-> "", lines |-> <<>>, registry |-> <<>>, inlineCounter |-> 0]
    /\ unitOutcome = "none"
    /\ paramList = Undefined
    /\ paramSections = <<>>

\* one call: openApiToLlmText(document) returns its text or ends in a TypeError
Convert ==
    LET throws == openApiToLlmTextThrows(document)
        result == IF throws THEN "" ELSE openApiToLlmText(document)
        ended == IF throws THEN "TypeError" ELSE "returned"
    IN  /\ outcome = "pending"
        /\ outcome' = ended
        /\ text' = result
        /\ history' = Append(history,
                             [openApi |-> document, outcome |-> ended, text |-> result])
        /\ leftCounter' =
               IF throws \/ ~Truthy(DocSchemas(document)) THEN leftCounter
               ELSE LastCounter(ObjectEntries(DocSchemas(document)), 1, leftCounter)
        /\ document' = IF throws THEN document ELSE DocumentAfter(document)
        /\ UNCHANGED unitVars

\* the caller passes the next document
NextCall ==
    /\ outcome # "pending"
    /\ Len(history) < MaxCalls
    /\ \E d \in RepeatedDocuments : document' = d
    /\ outcome' = "pending"
    /\ UNCHANGED <<text, history, leftCounter>>
    /\ UNCHANGED unitVars

\* any number of calls, one after the other
Init ==
    /\ UnitIdle
    /\ document \in RepeatedDocuments
    /\ text = ""
    /\ outcome = "pending"
    /\ history = <<>>
    /\ leftCounter = 1

Next == Convert \/ NextCall

Spec == Init /\ [][Next]_vars

\* one call on any document
RenderInit ==
    /\ UnitIdle
    /\ document \in Documents
    /\ text = ""
    /\ outcome = "pending"
    /\ history = <<>>
    /\ leftCounter = 1

SpecRender == RenderInit /\ [][Convert]_vars

(***************************************************************************)
(* Calls of formatParameters: a parameter list and the document whose      *)
(* collections its references are looked up in.                            *)
(***************************************************************************)
\* most entries of a parameter list
MaxParams == 2

ParamTypes == {"string", "integer", "number", "boolean", "array", "object", "file"}

ParamEnums == {Undefined, Arr(<<Str("a"), Str("b")>>), Arr(<<>>)}

ParamFormats == {Undefined, Str("int32")}

\* a Swagger 2.0 parameter: type, enum and format sit on the parameter
Direct(name, type, enum, format) ==
    Obj(<<<<"name", Str(name)>>, <<"in", Str("query")>>, <<"type", Str(type)>>>>
        \o Opt("enum", enum) \o Opt("format", format))

\* an OpenAPI 3.x parameter: type, enum and format sit on its schema
Nested(name, type, enum, format) ==
    Obj(<<<<"name", Str(name)>>, <<"in", Str("query")>>,
          <<"schema", Obj(<<<<"type", Str(type)>>>>
                          \o Opt("enum", enum) \o Opt("format", format))>>>>)

\* the two shapes of one declaration, side by side
ShapePairs ==
    {<<Direct("q", t, e, f), Nested("q", t, e, f)>> :
        t \in ParamTypes, e \in ParamEnums, f \in ParamFormats}

RefTargets ==
    {"#/components/parameters/shared", "#/parameters/legacy",
     "#/components/parameters/modern", "#/components/parameters/chained",
     "#/components/parameters/missing", "#/components/parameters/constructor",
     "#/parameters/__proto__"}

ListEntries ==
    {Ref(target) : target \in RefTargets}
    \cup {Direct("limit", "integer", Undefined, Str("int32")),
          Obj(<<<<"name", Str("id")>>, <<"in", Str("path")>>,
                <<"required", Bool(TRUE)>>, <<"description", Str("the id")>>,
                <<"schema", Typed("string")>>>>),
          Obj(<<>>)}

RECURSIVE EntryLists(_)
\* the lists of exactly n entries
EntryLists(n) ==
    IF n = 0 THEN {<<>>}
    ELSE {Append(l, e) : l \in EntryLists(n - 1), e \in ListEntries}

ParameterLists ==
    ShapePairs \cup UNION {EntryLists(n) : n \in 0..MaxParams}

\* documents with both collections, so that a lookup in the wrong one shows
ParameterDocuments ==
    LET modern == <<<<"shared", Nested("shared", "string", Undefined, Undefined)>>,
                    <<"modern", Nested("modern", "integer", Undefined, Undefined)>>,
                    <<"chained", Ref("#/components/parameters/shared")>>>>
        legacy == <<<<"shared", Direct("sharedV2", "integer", Undefined, Undefined)>>,
                    <<"legacy", Direct("legacy", "string", Undefined, Undefined)>>,
                    <<"chained", Ref("#/parameters/legacy")>>>>
    IN  {Obj(<<<<"openapi", Str("3.0.0")>>,
               <<"components", Obj(<<<<"parameters", Obj(modern)>>>>)>>,
               <<"parameters", Obj(legacy)>>>>),
         Obj(<<<<"swagger", Str("2.0")>>,
               <<"components", Obj(<<<<"parameters", Obj(modern)>>>>)>>,
               <<"parameters", Obj(legacy)>>>>),
         Obj(<<<<"swagger", Str("2.1")>>,
               <<"parameters", Obj(legacy)>>>>),
         Obj(<<<<"openapi", Str("3.1.0")>>>>),
         Obj(<<<<"swagger", Str("2.0")>>>>)}

\* the call about to be made
ParametersInit ==
    /\ fn = "formatParameters"
    /\ schema = Undefined
    /\ options = [context |-> "parameter"]
    /\ typeText = ""
    /\ listed = NoResult
    /\ unitOutcome = "pending"
    /\ paramList \in {Arr(l) : l \in ParameterLists}
    /\ paramSections = <<>>
    /\ document \in ParameterDocuments
    /\ text = ""
    /\ outcome = "none"
    /\ history = <<>>
    /\ leftCounter = 1

\* formatParameters(operation.parameters, openApi)
FormatParameters ==
    LET throws == formatParametersThrows(paramList, document)
    IN  /\ unitOutcome = "pending"
        /\ fn = "formatParameters"
        /\ unitOutcome' = IF throws THEN "TypeError" ELSE "returned"
        /\ paramSections' = IF throws THEN <<>>
                            ELSE formatParameters(paramList, document)
        /\ UNCHANGED <<fn, schema, options, typeText, listed, paramList>>
        /\ UNCHANGED docVars

SpecParameters == ParametersInit /\ [][FormatParameters]_vars

(***************************************************************************)
(* Properties.  What a property expects is written out here from the       *)
(* document's shape alone, not taken from the definitions above.           *)
(***************************************************************************)
\* the substring of str after its last '/', the whole of str when it has none
AfterLastSlash(str) ==
    LET slashes == {i \in 1..Len(str) : SubSeq(str, i, i) = "/"}
    IN  IF slashes = {} THEN str
        ELSE SubSeq(str, (CHOOSE i \in slashes : \A j \in slashes : j <= i) + 1,
                    Len(str))

StartsWith(str, prefix) ==
    Len(prefix) <= Len(str) /\ SubSeq(str, 1, Len(prefix)) = prefix

EndsWith(str, suffix) ==
    /\ Len(suffix) <= Len(str)
    /\ SubSeq(str, Len(str) - Len(suffix) + 1, Len(str)) = suffix

\* the per-context unknown token of the specification
UnknownToken(context) == IF context = "parameter" THEN "unknown" ELSE "Unknown"

Present(node, key) ==
    node.t = "object" /\ \E i \in 1..Len(node.v) : node.v[i][1] = key

Field(node, key) == node.v[CHOOSE i \in 1..Len(node.v) : node.v[i][1] = key][2]

HasComposition(node) ==
    Present(node, "allOf") \/ Present(node, "oneOf") \/ Present(node, "anyOf")

\* a Reference node: it carries a $ref string
IsReference(node) == Present(node, "$ref") /\ Field(node, "$ref").t = "string"

\* a node with no type, no $ref, no composition keyword and no properties
IsBare(node) ==
    /\ node.t = "object"
    /\ ~Present(node, "type") /\ ~Present(node, "$ref")
    /\ ~HasComposition(node) /\ ~Present(node, "properties")

IsAbsent(node) == node.t \in {"undefined", "null"}

\* a node of the given declared type that is neither a reference nor a composition
HasType(node, type) ==
    /\ node.t = "object"
    /\ ~Present(node, "$ref") /\ ~HasComposition(node)
    /\ Present(node, "type")
    /\ Field(node, "type").t = "string" /\ Field(node, "type").v = type

\* the declared property names of a node, in declaration order
PropertyNames(node) ==
    IF Present(node, "properties") /\ Field(node, "properties").t = "object"
    THEN [i \in 1..Len(Field(node, "properties").v) |->
             Field(node, "properties").v[i][1]]
    ELSE <<>>

RECURSIVE Listed(_, _)
\* names joined by sep
Listed(names, sep) ==
    IF names = <<>> THEN ""
    ELSE IF Len(names) = 1 THEN names[1]
    ELSE names[1] \o sep \o Listed(Tail(names), sep)

FirstNames(names, n) == [i \in 1..(IF Len(names) < n THEN Len(names) ELSE n) |-> names[i]]

Resolved == fn = "resolveSchemaType" /\ unitOutcome = "returned"

Formatted == fn = "formatSchema" /\ unitOutcome = "returned"

Converted == outcome = "returned"

\* str has sub as a substring starting at position i
OccursAt(str, sub, i) ==
    i + Len(sub) - 1 <= Len(str) /\ SubSeq(str, i, i + Len(sub) - 1) = sub

Occurrences(str, sub) == Cardinality({i \in 1..Len(str) : OccursAt(str, sub, i)})

Contains(str, sub) == \E i \in 1..Len(str) : OccursAt(str, sub, i)

\* the named schemas a document declares, by its shape
Declared(doc) ==
    IF Present(doc, "swagger")
    THEN IF Present(doc, "definitions") THEN Field(doc, "definitions")
         ELSE [t |-> "undefined", v |-> 0]
    ELSE IF Present(doc, "components") /\ Present(Field(doc, "components"), "schemas")
         THEN Field(Field(doc, "components"), "schemas")
         ELSE [t |-> "undefined", v |-> 0]

\* the document declares Foo as allOf: [{$ref: Bar}, {type: object, properties: {x, y}}]
DeclaresFoo(doc) ==
    /\ Present(Declared(doc), "Foo")
    /\ LET foo == Field(Declared(doc), "Foo")
       IN  /\ Present(foo, "allOf")
           /\ Field(foo, "allOf").t = "array"
           /\ Len(Field(foo, "allOf").v) = 2
           /\ IsReference(Field(foo, "allOf").v[1])
           /\ AfterLastSlash(Field(Field(foo, "allOf").v[1], "$ref").v) = "Bar"
           /\ HasType(Field(foo, "allOf").v[2], "object")
           /\ PropertyNames(Field(foo, "allOf").v[2]) = <<"x", "y">>

C2_NeverAborts == outcome # "TypeError"

\* C3 as stated: for the example document the output begins with the
\* operation block followed by two newline characters.
C3_ExampleEndsWithBlankLine ==
    (document = ExampleDocument /\ Converted)
        => StartsWith(text, "API: T v1\n\nBase URL: /api\n\nENDPOINTS:\n\nGET /x\n"
                            \o "  Summary: S\n  Responses:\n    200: OK\n\n")

\* C3 amended: for the example document the output is exactly the header, the
\* ENDPOINTS heading and the operation block followed by one newline
\* character, since no section follows the block.
C3_ExampleExactText ==
    (document = ExampleDocument /\ Converted)
        => text = "API: T v1\n\nBase URL: /api\n\nENDPOINTS:\n\nGET /x\n"
                  \o "  Summary: S\n  Responses:\n    200: OK\n"

C3_Witness ==
    document = ExampleDocument /\ Converted /\ EndsWith(text, "    200: OK\n")

\* C4 as stated: Foo's one virtual schema is emitted under the name
\* Foo__inline__1, in Foo's branch list and as the heading of its own block
\* with the lines of x and y, right after Foo's block.
C4_VirtualNameBare ==
    (DeclaresFoo(document) /\ Converted)
        => Contains(text, "\nFoo: allOf [Bar, Foo__inline__1]\n\n"
                          \o "Foo__inline__1: object\n  - x: string\n  - y: integer\n")

\* C4 amended: Foo's one virtual schema is emitted under the name
\* <Foo__inline__1>, angle brackets included, in Foo's branch list and as the
\* heading of its own block with the lines of x and y, right after Foo's
\* block; no second virtual schema of Foo is emitted.
C4_VirtualNameBracketed ==
    (DeclaresFoo(document) /\ Converted)
        => /\ Contains(text, "\nFoo: allOf [Bar, <Foo__inline__1>]\n\n"
                             \o "<Foo__inline__1>: object\n  - x: string\n  - y: integer\n")
           /\ Occurrences(text, "[Bar, <Foo__inline__1>]") = 1
           /\ Occurrences(text, "\n<Foo__inline__1>: object\n") = 1
           /\ ~Contains(text, "Foo__inline__2")

C4_Witness ==
    /\ DeclaresFoo(document) /\ Converted
    /\ Contains(text, "Foo__inline__1")
    /\ Contains(text, "\nPair: oneOf [")

\* C5 as stated: for any Reference node and any render context the rendered
\* text is the substring of the reference string after its last '/', also
\* when that substring is empty.
C5_ReferenceIsTrailingSegment ==
    (Resolved /\ IsReference(schema))
        => typeText = AfterLastSlash(Field(schema, "$ref").v)

\* C5 amended: a Reference renders as the substring after the last '/' of its
\* string (the whole string when it has no '/') when that substring is not
\* empty, and as the context's unknown token when it is empty.
C5_ReferenceSegmentOrUnknown ==
    (Resolved /\ IsReference(schema))
        => LET name == AfterLastSlash(Field(schema, "$ref").v)
           IN  typeText = IF name = "" THEN UnknownToken(options.context) ELSE name

C5_Witness ==
    /\ Resolved /\ IsReference(schema)
    /\ Field(schema, "$ref").v = "a//b"
    /\ options.context = "response"
    /\ typeText = "b"

\* C6 as stated: a node with no type, no $ref, no composition keyword and no
\* properties (or an absent schema) renders "unknown" in parameter context
\* and "Unknown" in every other context, the schema listing included, both
\* as a top-level type summary and as a property type.
C6_UnknownEverywhere ==
    /\ (Resolved /\ (IsBare(schema) \/ IsAbsent(schema)))
           => typeText = UnknownToken(options.context)
    /\ (Formatted /\ IsBare(schema)) => listed.type = "Unknown"
    /\ (Formatted /\ HasType(schema, "object"))
           => \A i \in 1..Len(PropertyNames(schema)) :
                  IsBare(Field(schema, "properties").v[i][2])
                      => EndsWith(listed.lines[i], ": Unknown")

\* C6 amended: such a node renders "unknown" in parameter context and in the
\* schema listing (as a top-level type summary and as a property type) and
\* "Unknown" in requestBody and response context; an absent schema renders
\* the same way in parameter, requestBody and response context.
C6_UnknownByContext ==
    /\ (Resolved /\ (IsBare(schema) \/ IsAbsent(schema)))
           => typeText = UnknownToken(options.context)
    /\ (Formatted /\ IsBare(schema)) => listed.type = "unknown" /\ listed.lines = <<>>
    /\ (Formatted /\ HasType(schema, "object"))
           => \A i \in 1..Len(PropertyNames(schema)) :
                  IsBare(Field(schema, "properties").v[i][2])
                      => EndsWith(listed.lines[i], ": unknown")

C6_Witness ==
    /\ Formatted /\ HasType(schema, "object")
    /\ Len(PropertyNames(schema)) = 3
    /\ IsBare(Field(schema, "properties").v[3][2])
    /\ listed.lines[3] = "  - p3: unknown"

\* C7: an object schema with n >= 1 properties renders in requestBody context
\* as "Object (...)" with its first min(n,3) property names in declaration
\* order and the marker "..." exactly when n > 3; in response and parameter
\* context all n names are listed with no marker; in the schema listing all n
\* properties appear as body lines, in declaration order.
C7_ObjectProperties ==
    LET names == PropertyNames(schema)
        n == Len(names)
    IN  /\ (Resolved /\ HasType(schema, "object") /\ n >= 1)
               => typeText =
                      IF options.context = "requestBody"
                      THEN "Object (" \o Listed(FirstNames(names, 3), ", ")
                               \o (IF n > 3 THEN "..." ELSE "") \o ")"
                      ELSE "Object (" \o Listed(names, ", ") \o ")"
        /\ (Formatted /\ HasType(schema, "object") /\ n >= 1)
               => /\ listed.type = "object"
                  /\ Len(listed.lines) = n
                  /\ \A i \in 1..n :
                         \/ StartsWith(listed.lines[i], "  - " \o names[i] \o ": ")
                         \/ StartsWith(listed.lines[i], "  - " \o names[i] \o "*: ")

C7_Witness ==
    /\ Resolved /\ HasType(schema, "object")
    /\ options.context = "requestBody"
    /\ Len(PropertyNames(schema)) = 5
    /\ typeText = "Object (p1, p2, p3...)"

\* the composition keyword a node is rendered by: the first one it carries
KindOf(node) ==
    IF Present(node, "allOf") THEN "allOf"
    ELSE IF Present(node, "oneOf") THEN "oneOf" ELSE "anyOf"

\* a composition: no $ref, and a list of object branches under its keyword
IsComposition(node) ==
    /\ node.t = "object" /\ ~Present(node, "$ref") /\ HasComposition(node)
    /\ Field(node, KindOf(node)).t = "array"
    /\ \A i \in 1..Len(Field(node, KindOf(node)).v) :
           Field(node, KindOf(node)).v[i].t = "object"

\* how the specification renders one branch of a composition
BranchText(branch) ==
    LET names == PropertyNames(branch)
    IN  IF IsReference(branch) /\ Field(branch, "$ref").v # ""
        THEN AfterLastSlash(Field(branch, "$ref").v)
        ELSE IF HasType(branch, "object") /\ Present(branch, "properties")
        THEN "{" \o Listed(FirstNames(names, 3), ", ")
                 \o (IF Len(names) > 3 THEN ", ..." ELSE "") \o "}"
        ELSE IF Present(branch, "type") /\ Field(branch, "type").t = "string"
                /\ Field(branch, "type").v # ""
        THEN Field(branch, "type").v
        ELSE "inline"

\* C8: a composition renders as "<kind>: [<branch1>, ...]" in requestBody
\* context only, each branch being its reference name if it is a Reference,
\* "{p1, p2, p3}" from its first 3 property names (", ..." added inside the
\* braces when it has more) if it is an inline object, and otherwise its
\* declared type or "inline"; in parameter and response context a
\* composition renders as that context's unknown token.
C8_CompositionByContext ==
    (Resolved /\ IsComposition(schema))
        => LET branches == Field(schema, KindOf(schema)).v
           IN  typeText =
                   IF options.context = "requestBody"
                   THEN KindOf(schema) \o ": ["
                        \o Listed([i \in 1..Len(branches) |-> BranchText(branches[i])],
                                  ", ")
                        \o "]"
                   ELSE UnknownToken(options.context)

C8_Witness ==
    /\ Resolved /\ IsComposition(schema)
    /\ options.context = "requestBody"
    /\ typeText = "oneOf: [Bar, {p1, p2, p3, ...}]"

EnumTexts(enum) ==
    [i \in 1..Len(enum.v) |->
        IF enum.v[i].t = "number" THEN ToString(enum.v[i].v) ELSE enum.v[i].v]

\* C10: for a primitive schema (string / integer / number) " [v1, v2, ...]"
\* is appended whenever an enumerated value set is present, and then no
\* format; with no enumerated value set " (format: <format>)" is appended
\* exactly when a format is declared and the context is response; otherwise
\* the bare type is rendered.
C10_PrimitiveEnumThenFormat ==
    \A type \in {"string", "integer", "number"} :
        (Resolved /\ HasType(schema, type))
            => typeText =
                   IF Present(schema, "enum")
                   THEN type \o " [" \o Listed(EnumTexts(Field(schema, "enum")), ", ")
                             \o "]"
                   ELSE IF Present(schema, "format") /\ options.context = "response"
                   THEN type \o " (format: " \o Field(schema, "format").v \o ")"
                   ELSE type

C10_Witness ==
    /\ Resolved /\ HasType(schema, "integer")
    /\ options.context = "response"
    /\ Present(schema, "enum") /\ Present(schema, "format")
    /\ typeText = "integer [1, 2, 3]"

ListedParameters == fn = "formatParameters" /\ unitOutcome = "returned"

Nothing == [t |-> "undefined", v |-> 0]

FieldOr(node, key, default) == IF Present(node, key) THEN Field(node, key) ELSE default

\* the collection a document's version keeps its reusable parameters in
OwnCollection(doc) ==
    IF Present(doc, "swagger") /\ Field(doc, "swagger") = [t |-> "string", v |-> "2.0"]
    THEN FieldOr(doc, "parameters", Nothing)
    ELSE FieldOr(FieldOr(doc, "components", Nothing), "parameters", Nothing)

\* the collection of the other version
OtherCollection(doc) ==
    IF Present(doc, "swagger") /\ Field(doc, "swagger") = [t |-> "string", v |-> "2.0"]
    THEN FieldOr(FieldOr(doc, "components", Nothing), "parameters", Nothing)
    ELSE FieldOr(doc, "parameters", Nothing)

\* the name a parameter reference asks for
Target(entry) == AfterLastSlash(Field(entry, "$ref").v)

\* a reference whose name the document's own collection declares
Resolvable(entry, doc) == Present(OwnCollection(doc), Target(entry))

\* the entries that are not references which cannot be resolved
Kept(entries, doc) ==
    SelectSeq(entries, LAMBDA e : ~IsReference(e) \/ Resolvable(e, doc))

\* the parameter node a kept entry stands for, after one hop
Stands(entry, doc) ==
    IF IsReference(entry) THEN Field(OwnCollection(doc), Target(entry)) ELSE entry

\* the start of the line of a parameter node: its name and its location
LineStart(node) ==
    "    - " \o FieldOr(node, "name", [t |-> "string", v |-> "undefined"]).v
    \o " (" \o FieldOr(node, "in", [t |-> "string", v |-> "undefined"]).v \o ", "

\* the lines after the heading
ParameterLines == IF paramSections = <<>> THEN <<>> ELSE Tail(paramSections)

\* C11 as stated: a parameter entry that is a reference which cannot be
\* resolved produces no line, every other entry produces exactly one line in
\* list order, and the "  Parameters:" heading is emitted if and only if at
\* least one parameter line is.
C11_UnresolvedDropped ==
    ListedParameters =>
        LET kept == Kept(paramList.v, document)
        IN  /\ Len(ParameterLines) = Len(kept)
            /\ \A i \in 1..Len(kept) :
                  i <= Len(ParameterLines)
                     => StartsWith(ParameterLines[i], LineStart(Stands(kept[i], document)))
            /\ (paramSections # <<>>) = (Len(kept) > 0)
            /\ paramSections # <<>> => paramSections[1] = "  Parameters:"

\* the names that every collection answers to although it does not declare them
InheritedNames == {"constructor", "toString", "valueOf", "hasOwnProperty", "__proto__"}

\* C11 for the lists that ask for no inherited name: there the statement holds
C11_DroppedUnlessInherited ==
    (/\ ListedParameters
     /\ \A i \in 1..Len(paramList.v) :
           IsReference(paramList.v[i]) => Target(paramList.v[i]) \notin InheritedNames)
        => C11_UnresolvedDropped

\* an unresolved reference sits between two entries that each got their line
C11_Witness ==
    /\ ListedParameters
    /\ Len(paramList.v) = 2
    /\ IsReference(paramList.v[1]) /\ ~Resolvable(paramList.v[1], document)
    /\ Target(paramList.v[1]) \notin InheritedNames
    /\ ~IsReference(paramList.v[2])
    /\ Len(paramSections) = 2

\* the whole line of a node that carries no field of a parameter
EmptyLine == "    - undefined (undefined, unknown (optional)): No description"

\* C12: a parameter reference is resolved in one hop against the collection
\* of the document's version only: a name its own collection declares gives
\* the line of the declared node, which is not followed when it is itself a
\* reference, and a name only the other version's collection declares gives
\* no line.
C12_OneHopOwnCollection ==
    (ListedParameters /\ Len(paramList.v) = 1 /\ IsReference(paramList.v[1])) =>
        LET entry == paramList.v[1]
            node == Field(OwnCollection(document), Target(entry))
        IN  /\ Resolvable(entry, document) =>
                  /\ Len(paramSections) = 2
                  /\ StartsWith(paramSections[2], LineStart(node))
                  /\ IsReference(node) => paramSections[2] = EmptyLine
            /\ (~Resolvable(entry, document)
                /\ Present(OtherCollection(document), Target(entry)))
                  => paramSections = <<>>

\* a Swagger 2.0 document is asked for a name that only components.parameters has
C12_Witness ==
    /\ ListedParameters /\ Len(paramList.v) = 1 /\ IsReference(paramList.v[1])
    /\ Present(document, "swagger") /\ Field(document, "swagger").v = "2.0"
    /\ Target(paramList.v[1]) = "modern"
    /\ Present(OtherCollection(document), "modern")
    /\ paramSections = <<>>

\* the list holds one declaration in both shapes: on the parameter itself,
\* then on the parameter's schema
BothShapes ==
    /\ ListedParameters /\ Len(paramList.v) = 2
    /\ Present(paramList.v[1], "type") /\ ~Present(paramList.v[1], "schema")
    /\ Present(paramList.v[2], "schema") /\ ~Present(paramList.v[2], "type")
    /\ Field(paramList.v[1], "type") = Field(Field(paramList.v[2], "schema"), "type")
    /\ FieldOr(paramList.v[1], "enum", Nothing)
          = FieldOr(Field(paramList.v[2], "schema"), "enum", Nothing)
    /\ Field(paramList.v[1], "type").v # "file"

\* the line of a parameter that is optional and undescribed, given its type text
LineOf(node, type) == LineStart(node) \o type \o " (optional)): No description"

\* "array" for arrays, else the declared type with its enumerated values, if any
TypeWithEnum(type, node) ==
    IF type = "array" THEN "array"
    ELSE IF Present(node, "enum")
    THEN type \o " [" \o Listed(EnumTexts(Field(node, "enum")), ", ") \o "]"
    ELSE type

IsSwaggerTwo(doc) ==
    Present(doc, "swagger") /\ Field(doc, "swagger") = [t |-> "string", v |-> "2.0"]

\* the first declared scheme, "https" when none is declared
SchemeOf(doc) ==
    IF Present(doc, "schemes") /\ Field(doc, "schemes").t = "array"
       /\ Len(Field(doc, "schemes").v) > 0
    THEN Field(doc, "schemes").v[1].v
    ELSE "https"

\* the header line of a Swagger 2.0 document; an absent basePath adds nothing
SwaggerBaseUrl(doc) ==
    "\nBase URL: " \o SchemeOf(doc) \o "://" \o Field(doc, "host").v
    \o FieldOr(doc, "basePath", [t |-> "string", v |-> ""]).v \o "\n"

\* the servers list has a first entry
HasServer(doc) ==
    Present(doc, "servers") /\ Field(doc, "servers").t = "array"
    /\ Len(Field(doc, "servers").v) > 0

ServerBaseUrl(doc) ==
    "\nBase URL: " \o Field(Field(doc, "servers").v[1], "url").v \o "\n"

\* C14 as stated: for every Swagger 2.0 document that declares a host the
\* header has the line "Base URL: <scheme>://<host><basePath>", the scheme
\* being the first declared one or "https"; for any other document the Base
\* URL is the url of the first servers entry.
C14_BaseUrlFromHost ==
    Converted =>
        /\ (IsSwaggerTwo(document) /\ Present(document, "host"))
              => Contains(text, SwaggerBaseUrl(document))
        /\ (~IsSwaggerTwo(document) /\ HasServer(document))
              => Contains(text, ServerBaseUrl(document))

\* C14 amended: a Swagger 2.0 document that declares both a host and a
\* basePath has the header line "Base URL: <scheme>://<host><basePath>", the
\* scheme being the first declared one or "https"; a Swagger 2.0 document
\* that lacks either has no Base URL line; any other document has the url of
\* its first servers entry as Base URL, and no Base URL line without one.
C14_BaseUrlFromHostAndBasePath ==
    Converted =>
        /\ IsSwaggerTwo(document) =>
              IF Present(document, "host") /\ Present(document, "basePath")
              THEN Contains(text, SwaggerBaseUrl(document))
              ELSE ~Contains(text, "Base URL:")
        /\ ~IsSwaggerTwo(document) =>
              IF HasServer(document)
              THEN Contains(text, ServerBaseUrl(document))
              ELSE ~Contains(text, "Base URL:")

\* a Swagger 2.0 document with a host and no basePath was converted
C14_Witness ==
    /\ Converted /\ IsSwaggerTwo(document)
    /\ Present(document, "host") /\ ~Present(document, "basePath")
    /\ StartsWith(text, "API: ")
    /\ ~Contains(text, "api.x.com")

\* the <<name, node>> pairs of the schemas a document declares
DeclaredSchemas(doc) == IF Declared(doc).t = "object" THEN Declared(doc).v ELSE <<>>

\* a node whose first composition keyword holds a list of nodes
IsBranching(node) ==
    /\ node.t = "object"
    /\ HasComposition(node)
    /\ LET kind == CHOOSE k \in {"allOf", "oneOf", "anyOf"} :
                      /\ Present(node, k)
                      /\ k = "oneOf" => ~Present(node, "allOf")
                      /\ k = "anyOf" => ~Present(node, "allOf") /\ ~Present(node, "oneOf")
       IN  /\ Field(node, kind).t = "array"
           /\ \A i \in 1..Len(Field(node, kind).v) : Field(node, kind).v[i].t = "object"

\* the composition keyword a branching node is read by, and its branches
KeywordOf(node) ==
    IF Present(node, "allOf") THEN "allOf"
    ELSE IF Present(node, "oneOf") THEN "oneOf" ELSE "anyOf"

BranchesOf(node) == Field(node, KeywordOf(node)).v

\* an inline object branch: type object with properties, and no reference
\* (it may carry a composition keyword of its own besides)
IsInlineBranch(branch) ==
    /\ branch.t = "object"
    /\ ~Present(branch, "$ref")
    /\ Present(branch, "type") /\ Field(branch, "type") = [t |-> "string", v |-> "object"]
    /\ Present(branch, "properties")

\* how many of the first i branches are inline objects
Ordinal(branches, i) == Cardinality({j \in 1..i : IsInlineBranch(branches[j])})

\* the name the listing gives the n-th inline object branch of a parent
Synthesized(parent, n) == "<" \o parent \o "__inline__" \o ToString(n) \o ">"

\* what the branch list of a parent shows for its i-th branch
ShownBranch(parent, branches, i) ==
    IF IsReference(branches[i]) THEN AfterLastSlash(Field(branches[i], "$ref").v)
    ELSE IF IsInlineBranch(branches[i]) THEN Synthesized(parent, Ordinal(branches, i))
    ELSE IF Present(branches[i], "type") THEN Field(branches[i], "type").v
    ELSE "inline"

\* where the first block headed by name starts in str after position from
\* (0 when there is none)
BlockAfter(str, name, from) ==
    LET starts == {i \in (from + 1)..Len(str) : OccursAt(str, "\n" \o name \o ": ", i)}
    IN  IF starts = {} THEN 0 ELSE CHOOSE i \in starts : \A j \in starts : i <= j

\* where the first block headed by name starts in str (0 when there is none)
BlockAt(str, name) == BlockAfter(str, name, 0)

\* C15: the virtual schemas of one top-level schema are emitted as blocks
\* right after that parent's block and before the next top-level schema's
\* block, in ordinal order; the parent's branch list numbers its k inline
\* object branches 1, 2, ..., k in branch order, every parent starting at 1.
C15_VirtualBlocksFollowParent ==
    Converted =>
        LET schemas == DeclaredSchemas(document)
        IN  \A i \in 1..Len(schemas) :
               IsBranching(schemas[i][2]) =>
                  LET parent == schemas[i][1]
                      branches == BranchesOf(schemas[i][2])
                      k == Ordinal(branches, Len(branches))
                      at[n \in 0..k] ==
                          IF n = 0 THEN BlockAt(text, parent)
                          ELSE IF at[n - 1] = 0 THEN 0
                          ELSE BlockAfter(text, Synthesized(parent, n), at[n - 1])
                      own == {Synthesized(parent, n) : n \in 1..k}
                  IN  /\ Contains(text,
                            "\n" \o parent \o ": " \o KeywordOf(schemas[i][2]) \o " ["
                            \o Listed([b \in 1..Len(branches) |->
                                          ShownBranch(parent, branches, b)], ", ")
                            \o "]\n\n")
                      /\ at[0] > 0
                      /\ \A n \in 1..k : at[n - 1] < at[n]
                      /\ \A j \in 1..Len(schemas) :
                            (j # i /\ schemas[j][1] \notin own)
                               => LET other == BlockAfter(text, schemas[j][1], at[0])
                                  IN  other = 0 \/ other > at[k]

\* two parents with virtual schemas, one of them with two, were listed in a row
C15_Witness ==
    /\ Converted
    /\ Contains(text, "\nPair: oneOf [<Pair__inline__1>, string, <Pair__inline__2>]\n\n"
                      \o "<Pair__inline__1>: object\n")
    /\ BlockAt(text, "<Pair__inline__2>") < BlockAt(text, "Foo")
    /\ BlockAt(text, "Foo") < BlockAt(text, "<Foo__inline__1>")

\* the names of the schemas a document declares
RealNames(doc) == {DeclaredSchemas(doc)[i][1] : i \in 1..Len(DeclaredSchemas(doc))}

\* the names the listing synthesizes for the inline object branches of a document
SynthesizedNames(doc) ==
    UNION {LET node == DeclaredSchemas(doc)[i][2]
           IN  IF IsBranching(node)
               THEN {Synthesized(DeclaredSchemas(doc)[i][1], n) :
                        n \in 1..Ordinal(BranchesOf(node), Len(BranchesOf(node)))}
               ELSE {} : i \in 1..Len(DeclaredSchemas(doc))}

\* C16 as stated: whatever the real schemas are called, the name synthesized
\* for a virtual schema is not the name of a real schema of the document, and
\* no two emitted schema blocks carry the same name.
C16_NoSharedBlockName ==
    Converted =>
        /\ SynthesizedNames(document) \cap RealNames(document) = {}
        /\ \A name \in SynthesizedNames(document) \cup RealNames(document) :
              Occurrences(text, "\n" \o name \o ": ") = 1

\* C16 for the documents none of whose real names starts with "<": there the
\* statement holds
C16_DistinctWithoutBrackets ==
    (\A name \in RealNames(document) : ~StartsWith(name, "<"))
        => C16_NoSharedBlockName

\* the <<name, node>> pairs of the properties of a node
PropertiesOf(node) ==
    IF Present(node, "properties") /\ Field(node, "properties").t = "object"
    THEN Field(node, "properties").v ELSE <<>>

\* what a property's branch list shows for a branch: a name, a type or "inline"
BranchType(branch) ==
    IF IsReference(branch) THEN AfterLastSlash(Field(branch, "$ref").v)
    ELSE IF Present(branch, "type") /\ Field(branch, "type").t = "string"
            /\ Field(branch, "type").v # ""
    THEN Field(branch, "type").v
    ELSE "inline"

\* the object schema in hand was listed, and none of its keys outranks properties
ListedProperties ==
    /\ Formatted
    /\ schema.t = "object" /\ ~HasComposition(schema)
    /\ ~(Present(schema, "type") /\ Field(schema, "type") = [t |-> "string", v |-> "array"])
    /\ PropertiesOf(schema) # <<>>

\* C17: in the listing of an object with properties, a property that is a
\* Reference has the type "object"; a property that is a composition of one
\* branch, a Reference, has that reference's name alone; any other composition
\* property has "<kind> [<branch-types>]", each branch shown by its reference
\* name, its declared type or "inline".
C17_PropertyCompositions ==
    ListedProperties =>
        /\ Len(listed.lines) = Len(PropertiesOf(schema))
        /\ \A i \in 1..Len(PropertiesOf(schema)) :
              LET prop == PropertiesOf(schema)[i][2]
                  line == listed.lines[i]
              IN  /\ IsReference(prop) => EndsWith(line, ": object")
                  /\ (prop.t = "object" /\ ~Present(prop, "$ref") /\ IsBranching(prop)) =>
                        LET branches == BranchesOf(prop)
                        IN  IF Len(branches) = 1 /\ IsReference(branches[1])
                            THEN EndsWith(line, ": " \o BranchType(branches[1]))
                                 /\ ~Contains(line, "[")
                            ELSE EndsWith(line,
                                     ": " \o KeywordOf(prop) \o " ["
                                     \o Listed([b \in 1..Len(branches) |->
                                                   BranchType(branches[b])], ", ")
                                     \o "]")

\* a reference, a one-reference composition and a primitive, listed in a row
C17_Witness ==
    /\ ListedProperties
    /\ Len(listed.lines) = 3
    /\ EndsWith(listed.lines[1], "owner: object")
    /\ EndsWith(listed.lines[2], ": Bar")
    /\ Present(PropertiesOf(schema)[2][2], "oneOf")

\* the names a node requires, when it says so by a list
RequiredNames(node) ==
    IF Present(node, "required") /\ Field(node, "required").t = "array"
    THEN {Field(node, "required").v[i].v : i \in 1..Len(Field(node, "required").v)}
    ELSE {}

ListedArray == Formatted /\ HasType(schema, "array")

\* the items of an array node, Nothing when it declares none
ItemsOf(node) == FieldOr(node, "items", Nothing)

\* C19 as stated: a top-level array schema has the type-summary "array" and a
\* body of exactly one line "items: <itemType>", the referenced name for
\* Reference items and "object" for inline object items; this holds for every
\* array schema, one whose items are absent included.
C19_AlwaysOneItemsLine ==
    ListedArray =>
        /\ listed.type = "array"
        /\ Len(listed.lines) = 1
        /\ StartsWith(listed.lines[1], "  items: ")
        /\ IsReference(ItemsOf(schema))
              => listed.lines[1]
                    = "  items: " \o AfterLastSlash(Field(ItemsOf(schema), "$ref").v)
        /\ HasType(ItemsOf(schema), "object") => listed.lines[1] = "  items: object"

\* C19 amended: a top-level array schema has the type-summary "array"; when
\* its items are an object its body is exactly one line "items: <itemType>",
\* itemType being the referenced name for Reference items ("unknown" when the
\* name is empty), "object" for inline object items, and otherwise the items
\* schema as the response context renders it (no property limit); when its
\* items are absent, null or not an object its body is empty.
C19_ItemsLineWhenItemsPresent ==
    ListedArray =>
        LET items == ItemsOf(schema)
        IN  /\ listed.type = "array"
            /\ IF items.t = "object"
               THEN /\ Len(listed.lines) = 1
                    /\ listed.lines[1] = "  items: " \o
                          (IF IsReference(items)
                           THEN IF AfterLastSlash(Field(items, "$ref").v) = ""
                                THEN "unknown"
                                ELSE AfterLastSlash(Field(items, "$ref").v)
                           ELSE IF HasType(items, "object") THEN "object"
                           ELSE resolveSchemaType(items, [context |-> "response"]))
               ELSE listed.lines = <<>>

\* an array without items was listed
C19_Witness ==
    /\ ListedArray
    /\ ~Present(schema, "items")
    /\ listed.type = "array"
    /\ listed.lines = <<>>

VirtualSchemas(doc) ==
    UNION {LET node == DeclaredSchemas(doc)[i][2]
           IN  IF IsBranching(node)
               THEN {<<Synthesized(DeclaredSchemas(doc)[i][1],
                                   Ordinal(BranchesOf(node), b)),
                       BranchesOf(node)[b]>> :
                        b \in {c \in 1..Len(BranchesOf(node)) :
                                  IsInlineBranch(BranchesOf(node)[c])}}
               ELSE {} : i \in 1..Len(DeclaredSchemas(doc))}

\* the names the block of a virtual schema shows in its own branch list
NestedNames(doc) ==
    UNION {IF IsBranching(v[2])
           THEN {Synthesized(v[1], n) :
                    n \in 1..Ordinal(BranchesOf(v[2]), Len(BranchesOf(v[2])))}
           ELSE {} : v \in VirtualSchemas(doc)}

\* C21: every virtual schema name shown in the branch list of a type-summary
\* line of the SCHEMAS section, of a real schema or of a virtual schema, has
\* exactly one emitted schema block headed by that name; the block of a
\* virtual schema shows no virtual name for which no block is emitted.
C21_ShownNamesHaveBlocks ==
    Converted =>
        \A name \in SynthesizedNames(document) \cup NestedNames(document) :
           Contains(text, name) => Occurrences(text, "\n" \o name \o ": ") = 1

\* C21 for the branch lists of the real schemas of a document none of whose
\* real names starts with "<": there the statement holds
C21_NamesOfRealParentsHaveBlocks ==
    (Converted /\ \A name \in RealNames(document) : ~StartsWith(name, "<"))
        => \A name \in SynthesizedNames(document) :
              /\ Contains(text, name)
              /\ Occurrences(text, "\n" \o name \o ": ") = 1

\* the second half of C21 alone: a virtual name shown in the branch list of a
\* virtual schema's block heads an emitted block
C21_NestedNamesHaveBlocks ==
    Converted =>
        \A name \in NestedNames(document) :
           Contains(text, name) => Contains(text, "\n" \o name \o ": ")

\* the block of a virtual schema was emitted with a branch list of its own
C21_Witness ==
    /\ Converted
    /\ Contains(text, "\nNest: oneOf [<Nest__inline__1>]\n\n"
                      \o "<Nest__inline__1>: allOf [<<Nest__inline__1>__inline__1>, string]\n")

=============================================================================
